---------------------------- MODULE Spec2Model ----------------------------
(***************************************************************************)
(* State-machine model of the capture-resource layer of desklab:           *)
(*   - the Wayland capturer registry  (src/src/server/wayland.rs)          *)
(*   - the cpal audio service         (src/src/audio/cpal_impl.rs)         *)
(*   - display server detection       (src/libs/hbb_common/src/platform/   *)
(*                                      linux.rs)                          *)
(* Registry operations are run by a fixed set of threads and are split at  *)
(* the points where the code takes or drops the CAP_DISPLAY_INFO RwLock.   *)
(* A read guard taken inside one expression (`*LOCK.read().unwrap()`) is   *)
(* dropped at the end of that expression, so such a read is one step that  *)
(* needs the lock to have no writer; everything the getters do with the    *)
(* address afterwards happens without the lock and is a later step.        *)
(* Raw-pointer misuse (double free, use after free) is undefined           *)
(* behaviour: the step is recorded and the process either aborts           *)
(* (crashed) or carries on.                                                *)
(***************************************************************************)
EXTENDS Integers, Sequences, FiniteSets, TLC

(* ------------------------------ bounds -------------------------------- *)
NThreads == 2
MaxDisplays == 2
MaxInitCalls == 2
MaxHandles == 2
MaxSubId == 2
MaxSinks == 2
MaxDeviceOpens == 2
MaxBuffers == 2
MaxMsgLen == 2
MaxScrapCalls == 2
MaxRateHundreds == 500
MaxSessions == 2

(* ------------------------- program constants -------------------------- *)
I32_MAX == 2147483647
I32_MIN == -I32_MAX - 1
LogCap == 1000000
LogEvery == 10000

Threads == 1..NThreads

VARIABLES
    is_x11,            \* platform::linux::is_x11(): legacy display server
    CAP_DISPLAY_INFO,  \* the u64 behind the RwLock: 0 or the address of a CapDisplayInfo
    writer,            \* thread holding the write guard of CAP_DISPLAY_INFO, 0 if none
    infos,             \* heap of boxed CapDisplayInfo, address = position
    caps,              \* heap of boxed native Capturers, address = position
    handles,           \* CapturerPtr clones handed to consumers by get_capturer, still held
    issued,            \* CapturerInfo values get_capturer has returned so far
    stale_frame,       \* a frame() call has dereferenced a capturer that clear() had freed
    pc, op, loc, ret,  \* per thread: position, running operation, locals, result
    enumCount,         \* Display::all() calls since the registry was last empty-cleared
    failCount,         \* population attempts that returned Err in the same period
    attempts,          \* Display::all() calls since process start
    mouse,             \* bounds handed to update_mouse_resolution_, in order
    crashed,           \* the process was aborted by an undefined-behaviour step
    subscribers,       \* CpalService.subscribers
    stream_config,     \* CpalService.stream_config: "None" or the negotiated format
    sinks,             \* messages received on each subscriber channel
    device_opens,      \* successful play() calls so far
    audio_last,        \* the request the audio worker handled last
    audio_seen,        \* kinds of events the audio service has been through
    worker_alive,      \* cpal_thread_loop has not left its loop
    audio_pc,          \* the worker: "recv" in the loop, "playing" in the Ok arm of start_sub
    audio_panicked,    \* a thread of the audio service (worker, stream callback) has panicked
    rx_alive,          \* subscriber channels whose receiver has not been dropped
    captured,          \* periods of audio the input device has produced so far
    unsubscribed,      \* ids whose unsubscribe was handled, and no subscribe since
    DISTRO,            \* hbb_common DISTRO: the Distro (name, version_id), once initialised
    LOG_SCRAP_COUNT,   \* the u32 behind the Mutex
    scrap_logged,      \* "Failed scrap" lines written by try_log
    try_log_calls,     \* calls of try_log so far
    map_err_in,        \* the message of the last map_err_scrap call
    map_err_out,       \* its result: the text of the io::Error, or Exit
    exited,            \* std::process::exit was called
    play_last,         \* the device config of the last play() call and what it returned
    gds,               \* the get_display_server call under way: position, what it read, result
    gsi                \* get_sound_inputs: CPAL_ASIO_TX_RX, both channels, the calls under way

regVars == <<is_x11, CAP_DISPLAY_INFO, writer, infos, caps, handles, issued, stale_frame,
             pc, op, loc,
             ret, enumCount, failCount, attempts, mouse, crashed>>
audioVars == <<subscribers, stream_config, sinks, device_opens, audio_last, audio_seen,
               worker_alive, audio_pc, audio_panicked, rx_alive, captured, unsubscribed>>
probeVars == <<DISTRO, LOG_SCRAP_COUNT, scrap_logged, try_log_calls, map_err_in, map_err_out, exited,
               play_last, gds, gsi>>
vars == <<regVars, audioVars, probeVars>>

(* ------------------------------ helpers ------------------------------- *)
RECURSIVE SumWidths(_)
DisplayWidth(i) == IF i = 1 THEN 1920 ELSE 1280
DisplayHeight(i) == IF i = 1 THEN 1080 ELSE 1024
SumWidths(i) == IF i = 0 THEN 0 ELSE DisplayWidth(i) + SumWidths(i - 1)
\* The i-th display Display::all() reports: monitors laid out side by side.
Display(i) == [origin |-> <<SumWidths(i - 1), 0>>,
               width |-> DisplayWidth(i), height |-> DisplayHeight(i)]

\* display_service::check_update_displays(&all); get_sync_displays(): one
\* DisplayInfo per enumerated display.
get_sync_displays(n) == n

\* display_service::get_primary_2(&all): the index of the configured primary
\* display among the n enumerated ones, whichever of them that is.
get_primary_2(n) == 0..(n - 1)

NoLoc == [addr |-> 0, idx |-> 0, n |-> 0, i |-> 0, rects |-> <<>>, capturers |-> <<>>,
          primary_2 |-> 0,
          minx |-> I32_MAX, maxx |-> I32_MIN, miny |-> I32_MAX, maxy |-> I32_MIN]
NoRet == [res |-> "none", val |-> 0, ub |-> FALSE]
Result(r, v, u) == [res |-> r, val |-> v, ub |-> u]

Populated == CAP_DISPLAY_INFO # 0
Releases(c) == caps[c].by_clear + caps[c].by_drop + caps[c].by_fail

\* Box::from_raw(ptr) followed by the drop of the box, `k` times over, for
\* every capturer of `ptrs`, counted under `field`.
RECURSIVE ReleaseAll(_, _, _, _)
ReleaseAll(heap, ptrs, field, k) ==
    IF ptrs = <<>> THEN heap
    ELSE LET c == Head(ptrs) IN
         ReleaseAll([heap EXCEPT ![c][field] = @ + k], Tail(ptrs), field, k)

\* The Vec<CapturerPtr> forgotten instead of dropped (the raw pointers as
\* they would be without the Drop impl).
DropCapturersForgets(heap, ptrs) == heap

\* A Vec<CapturerPtr> goes out of scope: CapturerPtr::drop for each element.
DropCapturers(heap, ptrs) == ReleaseAll(heap, ptrs, "by_fail", 1)

\* DISTRO before its first use.
NoDistro == [init |-> FALSE, name |-> "", version_id |-> <<>>]
\* map_err_scrap did not return: the process exited.
Exit == <<"exit">>

\* A thread that is not inside get_sound_inputs.
NoCall == [pc |-> "idle", call |-> 0, res |-> "none", for |-> 0, inputs |-> 0]
\* The state around get_sound_inputs before its first call: CPAL_ASIO_TX_RX
\* not yet initialised and unlocked, both channels empty.
NoGsi == [asio |-> "uninit", mutex |-> 0, calls |-> 0, requests |-> <<>>, responses |-> <<>>,
          host_inputs |-> 0, th |-> [t \in Threads |-> NoCall]]

Init ==
    /\ is_x11 \in BOOLEAN
    /\ CAP_DISPLAY_INFO = 0
    /\ writer = 0
    /\ infos = <<>>
    /\ caps = <<>>
    /\ handles = <<>>
    /\ issued = 0
    /\ stale_frame = FALSE
    /\ pc = [t \in Threads |-> "idle"]
    /\ op = [t \in Threads |-> "none"]
    /\ loc = [t \in Threads |-> NoLoc]
    /\ ret = [t \in Threads |-> NoRet]
    /\ enumCount = 0
    /\ failCount = 0
    /\ attempts = 0
    /\ mouse = <<>>
    /\ crashed = FALSE
    /\ subscribers = <<>>
    /\ stream_config = "None"
    /\ sinks = [x \in 1..MaxSinks |-> <<>>]
    /\ device_opens = 0
    /\ audio_last = [req |-> "none", id |-> 0, tx |-> 0, dup |-> FALSE]
    /\ audio_seen = {}
    /\ worker_alive = TRUE
    /\ audio_pc = "recv"
    /\ audio_panicked = FALSE
    /\ rx_alive = 1..MaxSinks
    /\ captured = 0
    /\ unsubscribed = {}
    /\ DISTRO = NoDistro
    /\ LOG_SCRAP_COUNT = 0
    /\ scrap_logged = 0
    /\ try_log_calls = 0
    /\ map_err_in = <<>>
    /\ map_err_out = <<>>
    /\ exited = FALSE
    /\ play_last = [dev |-> [ok |-> FALSE, rate |-> 0, channels |-> 0],
                    out |-> [ok |-> FALSE, format |-> [sample_rate |-> 0, channels |-> 0]]]
    /\ gds = [pc |-> "idle", forced |-> [set |-> FALSE, val |-> ""],
              xdg_session_type |-> [set |-> FALSE, val |-> ""],
              xdg_session_id |-> [set |-> FALSE, val |-> ""],
              loginctl |-> 0, loginctl_ok |-> FALSE, session |-> "",
              ans |-> [type |-> "ERR", xorg |-> ""], out |-> ""]
    /\ gsi = NoGsi

(* ------------------------- registry: check_init ----------------------- *)
DisplayAllOutcomes ==
    {[ok |-> FALSE, n |-> 0]} \cup {[ok |-> TRUE, n |-> k] : k \in 1..MaxDisplays}

\* check_init returns `r` to ensure_inited, or to get_displays, whose `?`
\* passes an Err on and which otherwise goes on to read the registry.
CheckInitReturn(t, r) ==
    IF op'[t] = "get_displays" /\ r.res = "Ok"
    THEN /\ pc' = [pc EXCEPT ![t] = "gd_read"]
         /\ ret' = ret
    ELSE /\ pc' = [pc EXCEPT ![t] = "ret"]
         /\ ret' = [ret EXCEPT ![t] = r]

\* check_init calls that may still call Display::all().
PendingInits == Cardinality({u \in Threads : pc[u] \in {"ci_wlock", "ci_recheck"}})

\* check_init without the is_x11 test of line 121.
CheckInitFastIgnoresServer(t, o) ==
    /\ UNCHANGED <<audioVars, probeVars>>
    /\ ~crashed
    /\ pc[t] = "idle"
    /\ attempts + PendingInits < MaxInitCalls
    /\ writer = 0
    /\ op' = [op EXCEPT ![t] = o]
    /\ IF CAP_DISPLAY_INFO = 0
       THEN /\ pc' = [pc EXCEPT ![t] = "ci_wlock"]
            /\ ret' = ret
       ELSE CheckInitReturn(t, Result("Ok", 0, FALSE))
    /\ UNCHANGED <<is_x11, CAP_DISPLAY_INFO, writer, infos, caps, handles, issued, stale_frame, loc,
                   enumCount, failCount, attempts, mouse, crashed>>

\* Lines 120-127: the is_x11 test and the first, read-locked look at the slot.
CheckInitFast(t, o) ==
    /\ UNCHANGED <<audioVars, probeVars>>
    /\ ~crashed
    /\ pc[t] = "idle"
    /\ attempts + PendingInits < MaxInitCalls
    /\ is_x11 \/ writer = 0
    /\ op' = [op EXCEPT ![t] = o]
    /\ IF ~is_x11 /\ CAP_DISPLAY_INFO = 0
       THEN /\ pc' = [pc EXCEPT ![t] = "ci_wlock"]
            /\ ret' = ret
       ELSE CheckInitReturn(t, Result("Ok", 0, FALSE))
    /\ UNCHANGED <<is_x11, CAP_DISPLAY_INFO, writer, infos, caps, handles, issued, stale_frame, loc,
                   enumCount, failCount, attempts, mouse, crashed>>

\* Line 128: CAP_DISPLAY_INFO.write().
CheckInitLock(t) ==
    /\ UNCHANGED <<audioVars, probeVars>>
    /\ ~crashed
    /\ pc[t] = "ci_wlock"
    /\ writer = 0
    /\ writer' = t
    /\ pc' = [pc EXCEPT ![t] = "ci_recheck"]
    /\ UNCHANGED <<is_x11, CAP_DISPLAY_INFO, infos, caps, handles, issued, stale_frame, op, loc, ret,
                   enumCount, failCount, attempts, mouse, crashed>>

\* Lines 129-151: the second look under the write lock, then Display::all()?.
CheckInitRecheckNoSecondLook(t) ==
    /\ UNCHANGED <<audioVars, probeVars>>
    /\ ~crashed
    /\ pc[t] = "ci_recheck"
    /\ writer = t
    /\ \E all \in DisplayAllOutcomes :
          /\ enumCount' = enumCount + 1
          /\ attempts' = attempts + 1
          /\ IF all.ok
             THEN /\ \E p \in get_primary_2(all.n) :
                        loc' = [loc EXCEPT ![t] = [NoLoc EXCEPT !.n = all.n,
                                                                !.primary_2 = p]]
                  /\ pc' = [pc EXCEPT ![t] = "ci_open"]
                  /\ UNCHANGED <<writer, ret, failCount>>
             ELSE /\ writer' = 0
                  /\ failCount' = failCount + 1
                  /\ pc' = [pc EXCEPT ![t] = "ret"]
                  /\ ret' = [ret EXCEPT ![t] = Result("Display::all failed", 0, FALSE)]
                  /\ loc' = loc
    /\ UNCHANGED <<is_x11, CAP_DISPLAY_INFO, infos, caps, handles, issued, stale_frame, op, mouse, crashed>>

CheckInitRecheck(t) ==
    /\ UNCHANGED <<audioVars, probeVars>>
    /\ ~crashed
    /\ pc[t] = "ci_recheck"
    /\ writer = t
    /\ IF CAP_DISPLAY_INFO # 0
       THEN /\ writer' = 0
            /\ op' = op
            /\ CheckInitReturn(t, Result("Ok", 0, FALSE))
            /\ UNCHANGED <<loc, enumCount, failCount, attempts>>
       ELSE \E all \in DisplayAllOutcomes :
              /\ enumCount' = enumCount + 1
              /\ attempts' = attempts + 1
              /\ IF all.ok
                 THEN /\ \E p \in get_primary_2(all.n) :
                        loc' = [loc EXCEPT ![t] = [NoLoc EXCEPT !.n = all.n,
                                                                !.primary_2 = p]]
                      /\ pc' = [pc EXCEPT ![t] = "ci_open"]
                      /\ UNCHANGED <<writer, op, ret, failCount>>
                 ELSE /\ writer' = 0
                      /\ failCount' = failCount + 1
                      /\ pc' = [pc EXCEPT ![t] = "ret"]
                      /\ ret' = [ret EXCEPT ![t] = Result("Display::all failed", 0, FALSE)]
                      /\ UNCHANGED <<op, loc>>
    /\ UNCHANGED <<is_x11, CAP_DISPLAY_INFO, infos, caps, handles, issued, stale_frame, mouse, crashed>>

Min(a, b) == IF a < b THEN a ELSE b
Max(a, b) == IF a > b THEN a ELSE b
NewCapturer(t) ==
    [attempt |-> attempts, idx |-> loc[t].i + 1, by_clear |-> 0, by_drop |-> 0, by_fail |-> 0]

\* The loop with a failed Capturer::new committing what was opened so far
\* instead of returning through `?`.
CheckInitOpenPartialCommit(t) ==
    /\ UNCHANGED <<audioVars, probeVars>>
    /\ ~crashed
    /\ pc[t] = "ci_open"
    /\ loc[t].i < loc[t].n
    /\ LET d == Display(loc[t].i + 1)
           l == loc[t]
       IN \E opened \in BOOLEAN :
            IF opened
            THEN /\ caps' = Append(caps, NewCapturer(t))
                 /\ loc' = [loc EXCEPT ![t] =
                        [l EXCEPT !.i = @ + 1,
                                  !.rects = Append(@, d),
                                  !.capturers = Append(@, Len(caps) + 1),
                                  !.minx = Min(@, d.origin[1]),
                                  !.maxx = Max(@, d.origin[1] + d.width),
                                  !.miny = Min(@, d.origin[2]),
                                  !.maxy = Max(@, d.origin[2] + d.height)]]
                 /\ UNCHANGED <<writer, pc, ret, failCount, infos, CAP_DISPLAY_INFO>>
            ELSE /\ caps' = caps
                 /\ infos' = Append(infos, [primary |-> 1,
                                            rects |-> Append(l.rects, d),
                                            display_infos |-> get_sync_displays(l.n),
                                            capturers |-> l.capturers,
                                            attempt |-> attempts,
                                            live |-> TRUE])
                 /\ CAP_DISPLAY_INFO' = Len(infos) + 1
                 /\ writer' = 0
                 /\ failCount' = failCount + 1
                 /\ pc' = [pc EXCEPT ![t] = "ret"]
                 /\ ret' = [ret EXCEPT ![t] = Result("Capturer::new failed", 0, FALSE)]
                 /\ loc' = loc
    /\ UNCHANGED <<is_x11, handles, issued, stale_frame, op, enumCount, attempts, mouse,
                   crashed>>

\* Lines 154-183, one turn of the loop: push the rectangle, widen the bounds,
\* Capturer::new(display)?, push the boxed capturer.  On Err the `?` returns
\* and drops the Vec<CapturerPtr> built so far, each by CapturerPtr::drop.
CheckInitOpen(t) ==
    /\ UNCHANGED <<audioVars, probeVars>>
    /\ ~crashed
    /\ pc[t] = "ci_open"
    /\ loc[t].i < loc[t].n
    /\ LET d == Display(loc[t].i + 1)
           l == loc[t]
       IN \E opened \in BOOLEAN :
            IF opened
            THEN /\ caps' = Append(caps, NewCapturer(t))
                 /\ loc' = [loc EXCEPT ![t] =
                        [l EXCEPT !.i = @ + 1,
                                  !.rects = Append(@, d),
                                  !.capturers = Append(@, Len(caps) + 1),
                                  !.minx = Min(@, d.origin[1]),
                                  !.maxx = Max(@, d.origin[1] + d.width),
                                  !.miny = Min(@, d.origin[2]),
                                  !.maxy = Max(@, d.origin[2] + d.height)]]
                 /\ UNCHANGED <<writer, pc, ret, failCount>>
            ELSE /\ caps' = DropCapturers(caps, l.capturers)
                 /\ writer' = 0
                 /\ failCount' = failCount + 1
                 /\ pc' = [pc EXCEPT ![t] = "ret"]
                 /\ ret' = [ret EXCEPT ![t] = Result("Capturer::new failed", 0, FALSE)]
                 /\ loc' = loc
    /\ UNCHANGED <<is_x11, CAP_DISPLAY_INFO, infos, handles, issued, stale_frame, op, enumCount, attempts, mouse, crashed>>

\* What input_service::update_mouse_resolution comes to in the spawned
\* thread, lines 203-213; allow_err! logs an Err.
UpdateOutcomes == {"Ok", "Err"}

\* check_init joining the spawned thread and passing its error on.
check_init_resultJoined(update) ==
    Result(IF update = "Ok" THEN "Ok" ELSE "update_mouse_resolution failed", 0, FALSE)

\* Lines 194-200: the update runs in a thread of its own that nothing waits
\* for; check_init returns Ok(()) whatever becomes of it.
check_init_result(update) == Result("Ok", 0, FALSE)

\* Lines 184-200: box the CapDisplayInfo, store its address, drop the write
\* guard, spawn update_mouse_resolution_ when a display was seen, return Ok.
\* `primary` is the 1 of line 138, which shadows the result of get_primary_2
\* (the local primary_2 here).
CheckInitInstall(t) ==
    /\ UNCHANGED <<audioVars, probeVars>>
    /\ ~crashed
    /\ pc[t] = "ci_open"
    /\ loc[t].i = loc[t].n
    /\ infos' = Append(infos, [primary |-> 1,
                               rects |-> loc[t].rects,
                               display_infos |-> get_sync_displays(loc[t].n),
                               capturers |-> loc[t].capturers,
                               attempt |-> attempts,
                               live |-> TRUE])
    /\ CAP_DISPLAY_INFO' = Len(infos) + 1
    /\ writer' = 0
    /\ mouse' = IF loc[t].minx # I32_MAX
                THEN Append(mouse, <<loc[t].minx, loc[t].maxx, loc[t].miny, loc[t].maxy>>)
                ELSE mouse
    /\ op' = op
    /\ \E update \in UpdateOutcomes : CheckInitReturn(t, check_init_result(update))
    /\ UNCHANGED <<is_x11, caps, handles, issued, stale_frame, loc, enumCount, failCount,
                   attempts, crashed>>

\* is_inited without the is_x11 test.
IsInitedIgnoresServer(t) ==
    /\ UNCHANGED <<audioVars, probeVars>>
    /\ ~crashed
    /\ pc[t] = "idle"
    /\ writer = 0
    /\ op' = [op EXCEPT ![t] = "is_inited"]
    /\ pc' = [pc EXCEPT ![t] = "ret"]
    /\ ret' = [ret EXCEPT ![t] = Result(IF CAP_DISPLAY_INFO = 0 THEN "Some" ELSE "None",
                                        0, FALSE)]
    /\ UNCHANGED <<is_x11, CAP_DISPLAY_INFO, writer, infos, caps, handles, issued, stale_frame,
                   loc, enumCount, failCount, attempts, mouse, crashed>>

\* is_inited, lines 99-118: None under x11; otherwise one read-locked look at
\* the slot, Some(message box) when it is 0 and None when it is not.
IsInited(t) ==
    /\ UNCHANGED <<audioVars, probeVars>>
    /\ ~crashed
    /\ pc[t] = "idle"
    /\ is_x11 \/ writer = 0
    /\ op' = [op EXCEPT ![t] = "is_inited"]
    /\ pc' = [pc EXCEPT ![t] = "ret"]
    /\ ret' = [ret EXCEPT ![t] =
                  Result(IF ~is_x11 /\ CAP_DISPLAY_INFO = 0 THEN "Some" ELSE "None", 0, FALSE)]
    /\ UNCHANGED <<is_x11, CAP_DISPLAY_INFO, writer, infos, caps, handles, issued, stale_frame,
                   loc, enumCount, failCount, attempts, mouse, crashed>>

\* The caller takes the result; the thread is free for its next call.
Return(t) ==
    /\ UNCHANGED <<audioVars, probeVars>>
    /\ ~crashed
    /\ pc[t] = "ret"
    /\ pc' = [pc EXCEPT ![t] = "idle"]
    /\ op' = [op EXCEPT ![t] = "none"]
    /\ loc' = [loc EXCEPT ![t] = NoLoc]
    /\ ret' = [ret EXCEPT ![t] = NoRet]
    /\ UNCHANGED <<is_x11, CAP_DISPLAY_INFO, writer, infos, caps, handles, issued, stale_frame, enumCount, failCount, attempts, mouse, crashed>>

(* ------------------- registry: getters, handles, clear ----------------- *)
NoInfo == "Failed to get capturer display info"
InvalidIndex == "Invalid capturer index"
NotWayland == "Do not call this function if not wayland"

\* The process is aborted (SIGSEGV / SIGABRT from the allocator): its threads
\* and its heap are gone.
Abort ==
    /\ crashed' = TRUE
    /\ CAP_DISPLAY_INFO' = 0
    /\ writer' = 0
    /\ infos' = <<>>
    /\ caps' = <<>>
    /\ handles' = <<>>
    /\ issued' = 0
    /\ stale_frame' = FALSE
    /\ pc' = [t \in Threads |-> "idle"]
    /\ op' = [t \in Threads |-> "none"]
    /\ loc' = [t \in Threads |-> NoLoc]
    /\ ret' = [t \in Threads |-> NoRet]
    /\ enumCount' = 0
    /\ failCount' = 0
    /\ attempts' = 0
    /\ mouse' = <<>>
    /\ UNCHANGED is_x11

\* An undefined-behaviour step: the process aborts here, or it carries on
\* with the effect `go`.
UB(go) ==
    \/ Abort
    \/ /\ crashed' = FALSE
       /\ go

\* Lines 235 and 248: `let addr = *CAP_DISPLAY_INFO.read().unwrap();`
\* (get_displays comes here from check_init, get_primary from its caller).
ReadAddr(t, next) ==
    /\ writer = 0
    /\ loc' = [loc EXCEPT ![t].addr = CAP_DISPLAY_INFO]
    /\ IF CAP_DISPLAY_INFO = 0
       THEN /\ pc' = [pc EXCEPT ![t] = "ret"]
            /\ ret' = [ret EXCEPT ![t] = Result(NoInfo, 0, FALSE)]
       ELSE /\ pc' = [pc EXCEPT ![t] = next]
            /\ ret' = ret

GetDisplaysRead(t) ==
    /\ UNCHANGED <<audioVars, probeVars>>
    /\ ~crashed
    /\ pc[t] = "gd_read"
    /\ ReadAddr(t, "gd_deref")
    /\ UNCHANGED <<is_x11, CAP_DISPLAY_INFO, writer, infos, caps, handles, issued, stale_frame, op,
                   enumCount, failCount, attempts, mouse, crashed>>

\* Lines 237-241: `&*cap_display_info`, display_infos.clone(); no lock is held.
GetDisplaysDeref(t) ==
    /\ UNCHANGED <<audioVars, probeVars>>
    /\ ~crashed
    /\ pc[t] = "gd_deref"
    /\ pc' = [pc EXCEPT ![t] = "ret"]
    /\ IF infos[loc[t].addr].live
       THEN /\ ret' = [ret EXCEPT ![t] =
                        Result("Ok", infos[loc[t].addr].display_infos, FALSE)]
            /\ crashed' = crashed
            /\ UNCHANGED <<is_x11, CAP_DISPLAY_INFO, writer, infos, caps, handles, issued, stale_frame, op,
                           loc, enumCount, failCount, attempts, mouse>>
       ELSE UB(/\ \E v \in 0..MaxDisplays : ret' = [ret EXCEPT ![t] = Result("Ok", v, TRUE)]
               /\ UNCHANGED <<is_x11, CAP_DISPLAY_INFO, writer, infos, caps, handles, issued, stale_frame,
                              op, loc, enumCount, failCount, attempts, mouse>>)

GetPrimaryRead(t) ==
    /\ UNCHANGED <<audioVars, probeVars>>
    /\ ~crashed
    /\ pc[t] = "idle"
    /\ op' = [op EXCEPT ![t] = "get_primary"]
    /\ ReadAddr(t, "gp_deref")
    /\ UNCHANGED <<is_x11, CAP_DISPLAY_INFO, writer, infos, caps, handles, issued, stale_frame,
                   enumCount, failCount, attempts, mouse, crashed>>

\* Lines 250-254: `&*cap_display_info`, .primary; no lock is held.
GetPrimaryDeref(t) ==
    /\ UNCHANGED <<audioVars, probeVars>>
    /\ ~crashed
    /\ pc[t] = "gp_deref"
    /\ pc' = [pc EXCEPT ![t] = "ret"]
    /\ IF infos[loc[t].addr].live
       THEN /\ ret' = [ret EXCEPT ![t] = Result("Ok", infos[loc[t].addr].primary, FALSE)]
            /\ crashed' = crashed
            /\ UNCHANGED <<is_x11, CAP_DISPLAY_INFO, writer, infos, caps, handles, issued, stale_frame, op,
                           loc, enumCount, failCount, attempts, mouse>>
       ELSE UB(/\ \E v \in 0..MaxDisplays : ret' = [ret EXCEPT ![t] = Result("Ok", v, TRUE)]
               /\ UNCHANGED <<is_x11, CAP_DISPLAY_INFO, writer, infos, caps, handles, issued, stale_frame,
                              op, loc, enumCount, failCount, attempts, mouse>>)

\* get_capturer calls that may still push a handle.
PendingHandles == Cardinality({u \in Threads : pc[u] = "gc_deref"})

\* Lines 278-283: the is_x11 bail, then the read-locked copy of the address.
GetCapturerRead(t, idx) ==
    /\ UNCHANGED <<audioVars, probeVars>>
    /\ ~crashed
    /\ pc[t] = "idle"
    /\ issued + PendingHandles < MaxHandles
    /\ op' = [op EXCEPT ![t] = "get_capturer"]
    /\ IF is_x11
       THEN /\ pc' = [pc EXCEPT ![t] = "ret"]
            /\ ret' = [ret EXCEPT ![t] = Result(NotWayland, 0, FALSE)]
            /\ loc' = [loc EXCEPT ![t].idx = idx]
       ELSE /\ writer = 0
            /\ loc' = [loc EXCEPT ![t].addr = CAP_DISPLAY_INFO, ![t].idx = idx]
            /\ IF CAP_DISPLAY_INFO = 0
               THEN /\ pc' = [pc EXCEPT ![t] = "ret"]
                    /\ ret' = [ret EXCEPT ![t] = Result(NoInfo, 0, FALSE)]
               ELSE /\ pc' = [pc EXCEPT ![t] = "gc_deref"]
                    /\ ret' = ret
    /\ UNCHANGED <<is_x11, CAP_DISPLAY_INFO, writer, infos, caps, handles, issued, stale_frame,
                   enumCount, failCount, attempts, mouse, crashed>>

\* CapturerPtr::clone: the copy holds the same raw pointer.
CapturerPtrClone(p) == p

\* The CapturerInfo a consumer holds: the pointer, and where it came from.
Handle(p, idx, a, u) == [ptr |-> p, idx |-> idx, info |-> a, ub |-> u]

\* get_capturer as it was before the registry shared its capturers (the lines
\* left commented out at 291-292): a second Capturer::new for the display.
GetCapturerFromInfoReopen(t, info, u) ==
    LET idx == loc[t].idx IN
    /\ pc' = [pc EXCEPT ![t] = "ret"]
    /\ IF idx >= info.display_infos
       THEN /\ ret' = [ret EXCEPT ![t] = Result(InvalidIndex, 0, u)]
            /\ UNCHANGED <<handles, issued, caps>>
       ELSE /\ caps' = Append(caps, [attempt |-> info.attempt, idx |-> idx + 1,
                                     by_clear |-> 0, by_drop |-> 0, by_fail |-> 0])
            /\ handles' = Append(handles, Handle(Len(caps) + 1, idx, loc[t].addr, u))
            /\ issued' = issued + 1
            /\ ret' = [ret EXCEPT ![t] = Result("Ok", Len(caps) + 1, u)]

\* get_capturer with the bounds check written `idx > len`.
GetCapturerFromInfoOffByOne(t, info, u) ==
    LET idx == loc[t].idx IN
    /\ pc' = [pc EXCEPT ![t] = "ret"]
    /\ caps' = caps
    /\ IF idx > info.display_infos
       THEN /\ ret' = [ret EXCEPT ![t] = Result(InvalidIndex, 0, u)]
            /\ UNCHANGED <<handles, issued>>
       ELSE IF idx >= Len(info.rects) \/ idx >= Len(info.capturers)
       THEN /\ ret' = [ret EXCEPT ![t] = Result("panic: index out of bounds", 0, u)]
            /\ UNCHANGED <<handles, issued>>
       ELSE /\ handles' = Append(handles,
                Handle(CapturerPtrClone(info.capturers[idx + 1]), idx, loc[t].addr, u))
            /\ issued' = issued + 1
            /\ ret' = [ret EXCEPT ![t] = Result("Ok", info.capturers[idx + 1], u)]

\* Lines 286-303 for the CapDisplayInfo `info`: the bounds check against
\* display_infos.len(), rects[idx], capturers[idx].clone() boxed into the
\* CapturerInfo.  idx counts from 0, sequences from 1.  `u`: the contents
\* were read from freed memory.
GetCapturerFromInfo(t, info, u) ==
    LET idx == loc[t].idx IN
    /\ pc' = [pc EXCEPT ![t] = "ret"]
    /\ caps' = caps
    /\ IF idx >= info.display_infos
       THEN /\ ret' = [ret EXCEPT ![t] = Result(InvalidIndex, 0, u)]
            /\ UNCHANGED <<handles, issued>>
       ELSE IF idx >= Len(info.rects) \/ idx >= Len(info.capturers)
       THEN /\ ret' = [ret EXCEPT ![t] = Result("panic: index out of bounds", 0, u)]
            /\ UNCHANGED <<handles, issued>>
       ELSE /\ handles' = Append(handles,
                Handle(CapturerPtrClone(info.capturers[idx + 1]), idx, loc[t].addr, u))
            /\ issued' = issued + 1
            /\ ret' = [ret EXCEPT ![t] = Result("Ok", info.capturers[idx + 1], u)]

\* Lines 284-304; no lock is held, so the CapDisplayInfo behind addr may have
\* been freed by clear() since the address was read.  Reading it then is a
\* use after free: the process aborts, or the call reads what the freed
\* block last held, or it reads a length that fails the bounds check.
GetCapturerDeref(t) ==
    /\ UNCHANGED <<audioVars, probeVars>>
    /\ ~crashed
    /\ pc[t] = "gc_deref"
    /\ IF infos[loc[t].addr].live
       THEN /\ GetCapturerFromInfo(t, infos[loc[t].addr], FALSE)
            /\ crashed' = crashed
            /\ UNCHANGED <<is_x11, CAP_DISPLAY_INFO, writer, infos, stale_frame, op, loc,
                           enumCount, failCount, attempts, mouse>>
       ELSE UB(/\ \E garbled \in BOOLEAN :
                    GetCapturerFromInfo(t,
                        IF garbled THEN [infos[loc[t].addr] EXCEPT !.display_infos = 0]
                        ELSE infos[loc[t].addr], TRUE)
               /\ UNCHANGED <<is_x11, CAP_DISPLAY_INFO, writer, infos, stale_frame, op, loc,
                              enumCount, failCount, attempts, mouse>>)

\* clear() without line 272, `*write_lock = 0`.
ClearPopulatedKeepsSlot(t) ==
    /\ infos' = [infos EXCEPT ![CAP_DISPLAY_INFO].live = FALSE]
    /\ caps' = ReleaseAll(caps, infos[CAP_DISPLAY_INFO].capturers, "by_clear", 2)
    /\ CAP_DISPLAY_INFO' = CAP_DISPLAY_INFO
    /\ enumCount' = 0
    /\ failCount' = 0

\* Lines 264-274 on a populated registry: Box::from_raw of the CapDisplayInfo;
\* every CapturerPtr moved out of it is freed by `Box::from_raw(capturer.0)`
\* and then once more by CapturerPtr::drop when `capturer` goes out of scope;
\* the slot is set to 0.
ClearPopulated(t) ==
    /\ infos' = [infos EXCEPT ![CAP_DISPLAY_INFO].live = FALSE]
    /\ caps' = ReleaseAll(caps, infos[CAP_DISPLAY_INFO].capturers, "by_clear", 2)
    /\ CAP_DISPLAY_INFO' = 0
    /\ enumCount' = 0
    /\ failCount' = 0

\* Lines 260-276.  The write guard is taken, used and dropped in this step.
Clear(t) ==
    /\ UNCHANGED <<audioVars, probeVars>>
    /\ ~crashed
    /\ pc[t] = "idle"
    /\ op' = [op EXCEPT ![t] = "clear"]
    /\ pc' = [pc EXCEPT ![t] = "ret"]
    /\ ret' = [ret EXCEPT ![t] = Result("Ok", 0, FALSE)]
    /\ IF is_x11
       THEN UNCHANGED <<CAP_DISPLAY_INFO, infos, caps, enumCount, failCount>>
       ELSE /\ writer = 0
            /\ IF CAP_DISPLAY_INFO = 0
               THEN UNCHANGED <<CAP_DISPLAY_INFO, infos, caps, enumCount, failCount>>
               ELSE ClearPopulated(t)
    /\ UNCHANGED <<is_x11, writer, handles, issued, stale_frame, loc, attempts,
                   mouse, crashed>>

\* The double free in clear() is undefined behaviour: the process may abort
\* in the middle of it instead of finishing the call.
ClearAbort(t) ==
    /\ UNCHANGED <<audioVars, probeVars>>
    /\ ~crashed
    /\ pc[t] = "idle"
    /\ ~is_x11
    /\ writer = 0
    /\ CAP_DISPLAY_INFO # 0
    /\ infos[CAP_DISPLAY_INFO].capturers # <<>>
    /\ Abort

\* CapturerPtr::frame through a consumer's handle: `(*self.0).frame(timeout)`.
\* On a freed capturer this is a use after free.
Frame(h) ==
    /\ UNCHANGED <<audioVars, probeVars>>
    /\ ~crashed
    /\ IF Releases(handles[h].ptr) = 0
       THEN UNCHANGED <<regVars, probeVars>>
       ELSE UB(/\ stale_frame' = (stale_frame \/ (~handles[h].ub
                                                  /\ caps[handles[h].ptr].by_clear > 0))
               /\ UNCHANGED <<is_x11, CAP_DISPLAY_INFO, writer, infos, caps, handles,
                              issued, pc, op, loc, ret, enumCount, failCount, attempts,
                              mouse>>)

RemoveAt(seq, h) == SubSeq(seq, 1, h - 1) \o SubSeq(seq, h + 1, Len(seq))

\* A consumer drops its CapturerInfo: CapturerPtr::drop frees the pointee.
\* Freeing a capturer that is already free is a double free.
DropHandle(h) ==
    /\ UNCHANGED <<audioVars, probeVars>>
    /\ ~crashed
    /\ LET go == /\ handles' = RemoveAt(handles, h)
                 /\ caps' = [caps EXCEPT ![handles[h].ptr].by_drop = @ + 1]
                 /\ UNCHANGED <<is_x11, CAP_DISPLAY_INFO, writer, infos, issued,
                                stale_frame, pc, op, loc, ret, enumCount,
                                failCount, attempts, mouse>>
       IN IF Releases(handles[h].ptr) = 0
          THEN go /\ crashed' = crashed
          ELSE UB(go)

RegistryNext ==
    \/ \E t \in Threads : \E o \in {"check_init", "get_displays"} : CheckInitFast(t, o)
    \/ \E t \in Threads : CheckInitLock(t)
    \/ \E t \in Threads : CheckInitRecheck(t)
    \/ \E t \in Threads : CheckInitOpen(t)
    \/ \E t \in Threads : CheckInitInstall(t)
    \/ \E t \in Threads : GetDisplaysRead(t)
    \/ \E t \in Threads : GetDisplaysDeref(t)
    \/ \E t \in Threads : GetPrimaryRead(t)
    \/ \E t \in Threads : GetPrimaryDeref(t)
    \/ \E t \in Threads : \E idx \in 0..MaxDisplays : GetCapturerRead(t, idx)
    \/ \E t \in Threads : GetCapturerDeref(t)
    \/ \E t \in Threads : IsInited(t)
    \/ \E t \in Threads : Clear(t)
    \/ \E t \in Threads : ClearAbort(t)
    \/ \E h \in DOMAIN handles : Frame(h)
    \/ \E h \in DOMAIN handles : DropHandle(h)
    \/ \E t \in Threads : Return(t)

SpecRegistry == Init /\ [][RegistryNext]_vars

\* The steps of a call under way that are thread t's own to take: every one
\* after the call's first statement.
CallStep(t) ==
    \/ CheckInitLock(t) \/ CheckInitRecheck(t) \/ CheckInitOpen(t) \/ CheckInitInstall(t)
    \/ GetDisplaysRead(t) \/ GetDisplaysDeref(t) \/ GetPrimaryDeref(t)
    \/ GetCapturerDeref(t)

\* Every thread is scheduled, and a thread that waits for the RwLock gets
\* it when it is free again and again (SF for the lock steps).
SpecRegistryLive == SpecRegistry /\ \A t \in Threads : SF_vars(CallStep(t))

(* ---------------------------- audio service -------------------------- *)
SubIds == 1..MaxSubId
Sinks == 1..MaxSinks
NativeRates == {8000, 44100, 48000}

\* What get_device and the stream build can come to: an error, or a device
\* with its default input config.
DeviceOutcomes ==
    {[ok |-> FALSE, rate |-> 0, channels |-> 0]}
    \cup {[ok |-> TRUE, rate |-> r, channels |-> c] : r \in NativeRates, c \in 1..2}

\* The ladder with its first test against 8000 instead of 12000, so that a
\* rate of 8000 up to 11999 falls through to the next rung.
SampleRateShifted(sample_rate_0) ==
    IF sample_rate_0 < 8000 THEN 8000
    ELSE IF sample_rate_0 < 16000 THEN 12000
    ELSE IF sample_rate_0 < 24000 THEN 16000
    ELSE IF sample_rate_0 < 48000 THEN 24000
    ELSE 48000

\* play(), lines 209-220: the encode rate for the device's native rate.
SampleRate(sample_rate_0) ==
    IF sample_rate_0 < 12000 THEN 8000
    ELSE IF sample_rate_0 < 16000 THEN 12000
    ELSE IF sample_rate_0 < 24000 THEN 16000
    ELSE IF sample_rate_0 < 48000 THEN 24000
    ELSE 48000

\* play(), lines 205-240: Err, or the started stream with its format message.
play(dev) ==
    IF dev.ok
    THEN [ok |-> TRUE,
          format |-> [sample_rate |-> SampleRate(dev.rate),
                      channels |-> IF dev.channels > 1 THEN 2 ELSE 1]]
    ELSE [ok |-> FALSE, format |-> [sample_rate |-> 0, channels |-> 0]]

\* send with the result unwrapped instead of allowed to fail: a send to a
\* channel whose receiver is gone panics the calling thread.
SendUnwrap(chans, tx, msg) ==
    [chans |-> IF tx \in rx_alive THEN [chans EXCEPT ![tx] = Append(@, msg)] ELSE chans,
     panicked |-> tx \notin rx_alive]

\* CpalSubscriber::send: the message is queued on the subscriber's channel;
\* mpsc::Sender::send returns Err when the receiver was dropped, and
\* allow_err! logs that error and carries on.
Send(chans, tx, msg) ==
    [chans |-> IF tx \in rx_alive THEN [chans EXCEPT ![tx] = Append(@, msg)] ELSE chans,
     panicked |-> FALSE]

HasId(subs, id) == \E k \in DOMAIN subs : subs[k].id = id

\* start_sub with an Err arm that gives up the worker instead of logging.
start_subStopOnErr(sub, dev) ==
    IF stream_config # "None"
    THEN LET r == Send(sinks, sub.tx, [kind |-> "Format", cfg |-> stream_config]) IN
         /\ sinks' = r.chans
         /\ audio_panicked' = (audio_panicked \/ r.panicked)
         /\ worker_alive' = ~r.panicked
         /\ UNCHANGED <<stream_config, device_opens, audio_pc, audio_seen>>
    ELSE /\ device_opens' = IF play(dev).ok THEN device_opens + 1 ELSE device_opens
         /\ audio_seen' = IF play(dev).ok THEN audio_seen ELSE audio_seen \cup {"open failed"}
         /\ audio_pc' = IF play(dev).ok THEN "playing" ELSE "recv"
         /\ worker_alive' = play(dev).ok
         /\ UNCHANGED <<stream_config, sinks, audio_panicked>>

\* start_sub, lines 309-329.  With a stream the format goes to the new
\* subscriber.  Without one play() is called: when it returns Ok the stream
\* has been started (line 235) and the worker is in the Ok arm; the Err arm
\* logs.  Neither arm assigns stream_config.
start_sub(sub, dev) ==
    IF stream_config # "None"
    THEN LET r == Send(sinks, sub.tx, [kind |-> "Format", cfg |-> stream_config]) IN
         /\ sinks' = r.chans
         /\ audio_panicked' = (audio_panicked \/ r.panicked)
         /\ worker_alive' = ~r.panicked
         /\ UNCHANGED <<stream_config, device_opens, audio_pc, audio_seen>>
    ELSE /\ device_opens' = IF play(dev).ok THEN device_opens + 1 ELSE device_opens
         /\ audio_seen' = IF play(dev).ok THEN audio_seen ELSE audio_seen \cup {"open failed"}
         /\ audio_pc' = IF play(dev).ok THEN "playing" ELSE "recv"
         /\ UNCHANGED <<stream_config, sinks, audio_panicked, worker_alive>>

\* on_subscribe without the loop over the ids, lines 293-297.
on_subscribeNoIdCheck(sub, dev) ==
    /\ subscribers' = Append(subscribers, sub)
    /\ start_sub(sub, dev)

\* on_subscribe, lines 292-300.
on_subscribe(sub, dev) ==
    IF HasId(subscribers, sub.id)
    THEN UNCHANGED <<subscribers, stream_config, sinks, device_opens, audio_seen,
                     audio_pc, audio_panicked, worker_alive>>
    ELSE /\ subscribers' = Append(subscribers, sub)
         /\ start_sub(sub, dev)

\* retain(|s| s.id() != id)
RECURSIVE Retain(_, _)
Retain(subs, id) ==
    IF subs = <<>> THEN <<>>
    ELSE IF Head(subs).id # id THEN <<Head(subs)>> \o Retain(Tail(subs), id)
    ELSE Retain(Tail(subs), id)

\* on_unsubscribe with the predicate of retain the wrong way round.
on_unsubscribeKeepsId(id) ==
    /\ subscribers' = SelectSeq(subscribers, LAMBDA s : s.id = id)
    /\ audio_seen' = audio_seen \cup {"unsubscribe"}
    /\ UNCHANGED <<stream_config, sinks, device_opens>>

\* on_unsubscribe, lines 301-303.
on_unsubscribe(id) ==
    /\ subscribers' = Retain(subscribers, id)
    /\ audio_seen' = audio_seen \cup {"unsubscribe"}
    /\ UNCHANGED <<stream_config, sinks, device_opens>>

\* The worker is in its loop, at recv_timeout (line 128).
AtRecv == worker_alive /\ audio_pc = "recv"

\* The worker takes CpalRequest::Subscribe(s) off its queue, lines 136-138.
\* When play() has returned Ok the worker is left inside start_sub.  A
\* consumer makes a channel for its subscription, so no two ids hold the
\* same channel at a time.
Subscribe(id, tx, dev) ==
    /\ UNCHANGED <<regVars, probeVars>>
    /\ AtRecv
    /\ \A k \in DOMAIN subscribers : subscribers[k].tx = tx => subscribers[k].id = id
    /\ device_opens < MaxDeviceOpens
    /\ audio_last' = [req |-> "subscribe", id |-> id, tx |-> tx,
                      dup |-> HasId(subscribers, id)]
    /\ on_subscribe([id |-> id, tx |-> tx], dev)
    /\ unsubscribed' = unsubscribed \ {id}
    /\ UNCHANGED <<rx_alive, captured>>

\* The Ok arm of start_sub ends, lines 319-321: it binds nothing, so the
\* stream play() returned is dropped, which stops it, and the format message
\* with it; the worker is back at recv_timeout.
StartSubOk ==
    /\ UNCHANGED <<regVars, probeVars>>
    /\ worker_alive /\ audio_pc = "playing"
    /\ audio_pc' = "recv"
    /\ audio_last' = [req |-> "subscribed", id |-> audio_last.id, tx |-> audio_last.tx,
                      dup |-> FALSE]
    /\ UNCHANGED <<subscribers, stream_config, sinks, device_opens, audio_seen,
                   audio_panicked, worker_alive, rx_alive, captured,
                   unsubscribed>>

\* The worker takes CpalRequest::Unsubscribe(id) off its queue, lines 139-141.
Unsubscribe(id) ==
    /\ UNCHANGED <<regVars, probeVars>>
    /\ AtRecv
    /\ audio_last' = [req |-> "unsubscribe", id |-> id, tx |-> 0,
                      dup |-> HasId(subscribers, id)]
    /\ on_unsubscribe(id)
    /\ unsubscribed' = IF HasId(subscribers, id) THEN unsubscribed \cup {id} ELSE unsubscribed
    /\ UNCHANGED <<audio_pc, audio_panicked, worker_alive, rx_alive, captured>>

\* The worker takes CpalRequest::SoundInputs off its queue and answers on
\* the response channel, lines 130-132; nothing of the service changes.
SoundInputs ==
    /\ UNCHANGED <<regVars, probeVars>>
    /\ AtRecv
    /\ audio_last' = [req |-> "sound_inputs", id |-> 0, tx |-> 0, dup |-> FALSE]
    /\ UNCHANGED <<subscribers, stream_config, sinks, device_opens, audio_seen, audio_pc,
                   audio_panicked, worker_alive, rx_alive, captured, unsubscribed>>

\* The worker takes CpalRequest::Close off its queue, or finds the request
\* channel disconnected, and leaves the loop, lines 133-135 and 144-147.
Close(why) ==
    /\ UNCHANGED <<regVars, probeVars>>
    /\ AtRecv
    /\ worker_alive' = FALSE
    /\ audio_last' = [req |-> why, id |-> 0, tx |-> 0, dup |-> FALSE]
    /\ UNCHANGED <<subscribers, stream_config, sinks, device_opens, audio_seen, audio_pc,
                   audio_panicked, rx_alive, captured, unsubscribed>>

\* A consumer drops the receiving end of its channel.
DropReceiver(tx) ==
    /\ UNCHANGED <<regVars, probeVars>>
    /\ tx \in rx_alive
    /\ rx_alive' = rx_alive \ {tx}
    /\ audio_last' = [req |-> "receiver dropped", id |-> 0, tx |-> tx, dup |-> FALSE]
    /\ UNCHANGED <<subscribers, stream_config, sinks, device_opens, audio_seen, audio_pc,
                   audio_panicked, worker_alive, captured, unsubscribed>>

\* A started input stream exists: the one play() returned to the Ok arm of
\* start_sub, or the one held in stream_config.
StreamLive == audio_pc = "playing" \/ stream_config # "None"

\* The per-buffer fan-out of the stream's data callback: the buffer is sent
\* to every current subscriber in turn; a panic in a send unwinds the
\* callback at that subscriber.
RECURSIVE data_callback(_, _, _)
data_callback(subs, chans, msg) ==
    IF subs = <<>> THEN [chans |-> chans, panicked |-> FALSE]
    ELSE LET r == Send(chans, Head(subs).tx, msg) IN
         IF r.panicked THEN r ELSE data_callback(Tail(subs), r.chans, msg)

\* The input device has its next period of audio ready (buffers are numbered
\* in the order the device produces them).  A started stream captures it and
\* runs the data callback on the audio thread; with no stream it is lost.
DataReady ==
    /\ UNCHANGED <<regVars, probeVars>>
    /\ captured < MaxBuffers
    /\ captured' = captured + 1
    /\ audio_last' = [req |-> IF StreamLive THEN "data" ELSE "data lost",
                      id |-> 0, tx |-> 0, dup |-> FALSE]
    /\ LET r == IF StreamLive
                THEN data_callback(subscribers, sinks, [kind |-> "Data", n |-> captured + 1])
                ELSE [chans |-> sinks, panicked |-> FALSE] IN
          /\ sinks' = r.chans
          /\ audio_panicked' = (audio_panicked \/ r.panicked)
    /\ UNCHANGED <<subscribers, stream_config, device_opens, audio_seen, audio_pc,
                   worker_alive, rx_alive, unsubscribed>>

AudioNext ==
    \/ \E id \in SubIds : \E tx \in Sinks : \E dev \in DeviceOutcomes : Subscribe(id, tx, dev)
    \/ StartSubOk
    \/ \E id \in SubIds : Unsubscribe(id)
    \/ SoundInputs
    \/ \E why \in {"Close", "Disconnected"} : Close(why)
    \/ \E tx \in Sinks : DropReceiver(tx)
    \/ DataReady

SpecAudio == Init /\ [][AudioNext]_vars

\* The worker thread is scheduled: a step it can take on its own (leaving the
\* Ok arm of start_sub) is taken.  Requests, buffers and dropped receivers
\* come from outside and need not come.
SpecAudioLive == SpecAudio /\ WF_vars(StartSubOk)

(* ------------------------ capture error classifier -------------------- *)
\* A raw error message is a sequence of pieces of text; these are the pieces
\* map_err_scrap looks for, and "x" for any other text.
NoReply == "Did not receive a reply"
MsgPieces == {NoReply, "org.freedesktop.portal", "pipewire", "dbus", "x"}
RECURSIVE SeqsUpTo(_, _)
SeqsUpTo(S, n) ==
    IF n = 0 THEN {<<>>}
    ELSE SeqsUpTo(S, n - 1) \cup {Append(q, x) : q \in {r \in SeqsUpTo(S, n - 1) : Len(r) = n - 1}, x \in S}
RawMessages == SeqsUpTo(MsgPieces, MaxMsgLen)

\* String::starts_with and str::contains on such messages.
starts_with(err, piece) == Len(err) >= 1 /\ err[1] = piece
contains(err, piece) == \E i \in DOMAIN err : err[i] = piece

\* The texts of client.rs the classifier answers with.
SCRAP_UBUNTU_HIGHER_REQUIRED == <<"SCRAP_UBUNTU_HIGHER_REQUIRED">>
SCRAP_OTHER_VERSION_OR_X11_REQUIRED == <<"SCRAP_OTHER_VERSION_OR_X11_REQUIRED">>
SCRAP_X11_REQUIRED == <<"SCRAP_X11_REQUIRED">>

\* Strings whose order matters are sequences of character codes
\* ('.' is 46, '0'..'9' are 48..57); String's `<` is the lexicographic order
\* of the bytes, a proper prefix being smaller.
RECURSIVE StrLess(_, _)
StrLess(a, b) ==
    IF b = <<>> THEN FALSE
    ELSE IF a = <<>> THEN TRUE
    ELSE IF Head(a) # Head(b) THEN Head(a) < Head(b)
    ELSE StrLess(Tail(a), Tail(b))

\* "21".to_owned()
MinUbuntuVersion == <<50, 49>>

\* VERSION_ID values of /etc/os-release: none, "9.10", "18.04", "20.04",
\* "21", "21.04", "22.04".
VersionIds ==
    {<<>>, <<57, 46, 49, 48>>, <<49, 56, 46, 48, 52>>, <<50, 48, 46, 48, 52>>,
     <<50, 49>>, <<50, 49, 46, 48, 52>>, <<50, 50, 46, 48, 52>>}
DistroNames == {"Ubuntu", "ubuntu", "Debian GNU/Linux", ""}

\* str::to_uppercase on the names above.
to_uppercase(s) ==
    CASE s = "Ubuntu" -> "UBUNTU"
      [] s = "ubuntu" -> "UBUNTU"
      [] s = "Debian GNU/Linux" -> "DEBIAN GNU/LINUX"
      [] OTHER -> s

\* Distro::new(), linux.rs 16-29: whatever /etc/os-release holds.
DistroOutcomes == [init : {TRUE}, name : DistroNames, version_id : VersionIds]

\* try_log with the counter tested after it is incremented, so that the
\* first line is written at the 10000th call.
try_logCountFirst(lock_count) ==
    IF lock_count >= LogCap THEN [count |-> lock_count, logged |-> FALSE]
    ELSE [count |-> lock_count + 1, logged |-> (lock_count + 1) % LogEvery = 0]

\* try_log, lines 54-63, on the counter value: the new value and whether the
\* "Failed scrap" line was written.
try_log(lock_count) ==
    IF lock_count >= LogCap THEN [count |-> lock_count, logged |-> FALSE]
    ELSE [count |-> lock_count + 1, logged |-> lock_count % LogEvery = 0]

\* map_err_scrap looking at the message before it looks at the distribution.
map_err_scrapMessageFirst(err, distro) ==
    IF contains(err, "org.freedesktop.portal") \/ contains(err, "pipewire")
       \/ contains(err, "dbus")
    THEN [text |-> SCRAP_OTHER_VERSION_OR_X11_REQUIRED, try_log |-> TRUE]
    ELSE IF to_uppercase(distro.name) = to_uppercase("Ubuntu")
         THEN IF StrLess(distro.version_id, MinUbuntuVersion)
              THEN [text |-> SCRAP_UBUNTU_HIGHER_REQUIRED, try_log |-> FALSE]
              ELSE [text |-> err, try_log |-> TRUE]
         ELSE [text |-> SCRAP_X11_REQUIRED, try_log |-> TRUE]

\* map_err_scrap, lines 34-51, for a message that is not fatal: the
\* io::Error's text and whether try_log was called.
map_err_scrap(err, distro) ==
    IF to_uppercase(distro.name) = to_uppercase("Ubuntu")
    THEN IF StrLess(distro.version_id, MinUbuntuVersion)
         THEN [text |-> SCRAP_UBUNTU_HIGHER_REQUIRED, try_log |-> FALSE]
         ELSE [text |-> err, try_log |-> TRUE]
    ELSE IF contains(err, "org.freedesktop.portal") \/ contains(err, "pipewire")
            \/ contains(err, "dbus")
         THEN [text |-> SCRAP_OTHER_VERSION_OR_X11_REQUIRED, try_log |-> TRUE]
         ELSE [text |-> SCRAP_X11_REQUIRED, try_log |-> TRUE]

\* The fatal test made on the whole message instead of its start.
IsFatalWholeMessage(err) == err = <<NoReply>>

\* The fatal test of map_err_scrap, line 29.
IsFatal(err) == starts_with(err, NoReply)

\* A call of map_err_scrap (scrap calls it through set_map_err), lines 24-52.
\* std::process::exit(-1) ends the process.  DISTRO is a lazy_static: its
\* first use, line 34, runs Distro::new().
MapErrScrap(err, d) ==
    /\ UNCHANGED audioVars
    /\ ~crashed /\ ~exited
    /\ LOG_SCRAP_COUNT < MaxScrapCalls
    /\ UNCHANGED <<play_last, gds, gsi>>
    /\ map_err_in' = err
    /\ IF IsFatal(err)
       THEN /\ Abort
            /\ exited' = TRUE
            /\ map_err_out' = Exit
            /\ UNCHANGED <<DISTRO, LOG_SCRAP_COUNT, scrap_logged, try_log_calls>>
       ELSE /\ d.init
            /\ IF DISTRO.init THEN (d = DISTRO /\ DISTRO' = DISTRO) ELSE DISTRO' = d
            /\ LET r == map_err_scrap(err, d)
                   l == try_log(LOG_SCRAP_COUNT) IN
                 /\ map_err_out' = r.text
                 /\ LOG_SCRAP_COUNT' = IF r.try_log THEN l.count ELSE LOG_SCRAP_COUNT
                 /\ scrap_logged' = IF r.try_log /\ l.logged THEN scrap_logged + 1
                                    ELSE scrap_logged
                 /\ try_log_calls' = IF r.try_log THEN try_log_calls + 1 ELSE try_log_calls
            /\ exited' = exited
            /\ UNCHANGED regVars

ClassifyNext == \E err \in RawMessages : \E d \in DistroOutcomes : MapErrScrap(err, d)

SpecClassify == Init /\ [][ClassifyNext]_vars

(* ------------------------------ try_log alone ------------------------ *)
MaxTryLogCalls == 1000002

\* A call of try_log from a map_err_scrap call whose message and result are
\* not followed (lines 38 and 42).  LOG_SCRAP_COUNT.lock() is held from line
\* 55 to the end of the function, so the calls of concurrent threads run one
\* after the other, each as a whole.
TryLog(t) ==
    /\ ~crashed /\ ~exited
    /\ try_log_calls < MaxTryLogCalls
    /\ LET l == try_log(LOG_SCRAP_COUNT) IN
          /\ LOG_SCRAP_COUNT' = l.count
          /\ scrap_logged' = IF l.logged THEN scrap_logged + 1 ELSE scrap_logged
    /\ try_log_calls' = try_log_calls + 1
    /\ UNCHANGED <<regVars, audioVars, DISTRO, map_err_in, map_err_out, exited, play_last,
                   gds, gsi>>

TryLogNext == \E t \in Threads : TryLog(t)

SpecTryLog == Init /\ [][TryLogNext]_vars

(* ------------------------------ play() alone -------------------------- *)
\* Native sample rates a device config can report: every multiple of 100 Hz
\* from 4000 Hz up to the bound, and the rungs of the ladder with their
\* neighbours.
PlayRates ==
    {100 * k : k \in 40..MaxRateHundreds}
    \cup {l + d : l \in {8000, 12000, 16000, 24000, 48000}, d \in {-1, 0, 1}}
PlayDevices ==
    {[ok |-> FALSE, rate |-> 0, channels |-> 0]}
    \cup {[ok |-> TRUE, rate |-> r, channels |-> c] : r \in PlayRates, c \in 1..2}

\* A call of play(), lines 205-240, on what get_device returned.
Play(dev) ==
    /\ play_last' = [dev |-> dev, out |-> play(dev)]
    /\ UNCHANGED <<regVars, audioVars, DISTRO, LOG_SCRAP_COUNT, scrap_logged, try_log_calls,
                   map_err_in,
                   map_err_out, exited, gds, gsi>>

PlayNext == \E dev \in PlayDevices : Play(dev)

SpecPlay == Init /\ [][PlayNext]_vars

(* ------------------------ display server detection -------------------- *)
DISPLAY_SERVER_WAYLAND == "wayland"
DISPLAY_SERVER_X11 == "x11"
INVALID_SESSION == "4294967295"

\* std::env::var: Err when the variable is not set, else Ok(value).
Unset == [set |-> FALSE, val |-> ""]
EnvVar(vals) == {Unset} \cup {[set |-> TRUE, val |-> v] : v \in vals}

\* str::to_lowercase on the session types met here.
to_lowercase(s) ==
    CASE s = "Wayland" -> "wayland"
      [] s = "X11" -> "x11"
      [] OTHER -> s

\* What the commands of get_display_server_of_session answer for a session:
\* `loginctl show-session -p Type` fails ("ERR") or prints a type; for a tty
\* session, the TTY query or the ps pipeline fails ("ERR"), or ps prints
\* nothing (""), or it prints an Xorg process of that tty ("Xorg").
NoAnswer == [type |-> "ERR", xorg |-> ""]
SessionAnswers ==
    {[type |-> t, xorg |-> ""] : t \in {"ERR", "", "x11", "wayland"}}
    \cup {[type |-> "tty", xorg |-> x] : x \in {"ERR", "", "Xorg"}}

\* get_display_server_of_session without the fallback of lines 141-143 for
\* a tty session: of a tty without Xorg only the type is left.
get_display_server_of_sessionNoXorgTest(ans, xdg_session_type) ==
    LET display_server == IF ans.type = "ERR" THEN "" ELSE ans.type
        fallback == IF display_server = "" \/ display_server = "tty"
                    THEN IF xdg_session_type.set THEN xdg_session_type.val ELSE display_server
                    ELSE display_server
    IN  to_lowercase(IF fallback = "" THEN "x11" ELSE fallback)

\* get_display_server_of_session, lines 98-148, on the commands' answers and
\* the XDG_SESSION_TYPE variable.
get_display_server_of_session(ans, xdg_session_type) ==
    IF ans.type = "tty" /\ ans.xorg = "Xorg" THEN "x11"
    ELSE LET display_server == IF ans.type = "ERR" THEN "" ELSE ans.type
             fallback == IF display_server = "" \/ display_server = "tty"
                         THEN IF xdg_session_type.set THEN xdg_session_type.val
                              ELSE display_server
                         ELSE display_server
         IN  to_lowercase(IF fallback = "" THEN "x11" ELSE fallback)

\* A line of `loginctl` for a session: whether it is on seat0, whether its
\* user is gdm, whether `show-session -p State` says active, and what the
\* commands of get_display_server_of_session answer for it.  The session id
\* of line i is the text of i.
SessionLines ==
    [seat0 : BOOLEAN, gdm : BOOLEAN, active : BOOLEAN, ans : SessionAnswers]
LoginctlOutputs == UNION {[1..n -> SessionLines] : n \in 0..MaxSessions}

\* The least index of a set of line numbers, 0 if it is empty: the line at
\* which the loop over the lines returns.
FirstOf(S) == IF S = {} THEN 0 ELSE CHOOSE i \in S : \A j \in S : i <= j

\* get_values_of_seat0(&[0])[0], lines 158-224: the id of the active session
\* of seat0, else of any active session that is not a tty, a gdm wayland
\* session being passed over; "" when there is none or loginctl fails.
get_values_of_seat0(ok, lines, xdg_session_type) ==
    LET d(i) == get_display_server_of_session(lines[i].ans, xdg_session_type)
        gdm_wayland(i) == lines[i].gdm /\ d(i) = DISPLAY_SERVER_WAYLAND
        first(i) == lines[i].seat0 /\ lines[i].active /\ ~gdm_wayland(i)
        second(i) == lines[i].active /\ ~gdm_wayland(i) /\ d(i) # "tty"
        a == FirstOf({i \in DOMAIN lines : first(i)})
        b == FirstOf({i \in DOMAIN lines : second(i)})
    IN  IF ~ok THEN ""
        ELSE IF a # 0 THEN ToString(a)
        ELSE IF b # 0 THEN ToString(b)
        ELSE ""

NoGds == [pc |-> "idle", forced |-> Unset, xdg_session_type |-> Unset, xdg_session_id |-> Unset,
          loginctl |-> 0, loginctl_ok |-> FALSE, session |-> "", ans |-> NoAnswer, out |-> ""]

\* get_display_server, lines 51-57: the forced-display-server variable.
GdsForced(forced, xdg_type, xdg_id) ==
    /\ gds.pc = "idle"
    /\ gds' = [NoGds EXCEPT !.forced = forced, !.xdg_session_type = xdg_type,
                            !.xdg_session_id = xdg_id,
                            !.pc = IF forced.set THEN "done" ELSE "loginctl",
                            !.out = IF forced.set THEN forced.val ELSE ""]
    /\ UNCHANGED <<regVars, audioVars, DISTRO, LOG_SCRAP_COUNT, scrap_logged, try_log_calls,
                   map_err_in,
                   map_err_out, exited, play_last, gsi>>

\* Lines 61-67: run_loginctl(None) as a test that loginctl can be called.
GdsLoginctl(ok) ==
    /\ gds.pc = "loginctl"
    /\ gds' = [gds EXCEPT !.loginctl = @ + 1, !.loginctl_ok = ok,
                          !.pc = IF ok THEN "seat0" ELSE "done",
                          !.out = IF ok THEN "" ELSE DISPLAY_SERVER_X11]
    /\ UNCHANGED <<regVars, audioVars, DISTRO, LOG_SCRAP_COUNT, scrap_logged, try_log_calls,
                   map_err_in,
                   map_err_out, exited, play_last, gsi>>

\* Lines 69-91: the session id, from loginctl, else XDG_SESSION_ID, else
\* /proc/self/sessionid; with none, XDG_SESSION_TYPE or "x11" is the result.
GdsSession(ok, lines, proc_sessionid) ==
    /\ gds.pc = "seat0"
    /\ LET seat0 == get_values_of_seat0(ok, lines, gds.xdg_session_type)
           sid == IF seat0 = "" /\ gds.xdg_session_id.set THEN gds.xdg_session_id.val
                  ELSE seat0
           proc == IF proc_sessionid = INVALID_SESSION THEN "" ELSE proc_sessionid
           session == IF sid = "" THEN proc ELSE sid
       IN  gds' = [gds EXCEPT !.loginctl = @ + 1, !.session = session,
                     !.pc = IF session = "" THEN "done" ELSE "of_session",
                     !.out = IF session # "" THEN ""
                             ELSE IF gds.xdg_session_type.set THEN gds.xdg_session_type.val
                             ELSE "x11"]
    /\ UNCHANGED <<regVars, audioVars, DISTRO, LOG_SCRAP_COUNT, scrap_logged, try_log_calls,
                   map_err_in,
                   map_err_out, exited, play_last, gsi>>

\* Lines 92-95: get_display_server_of_session(&session) is the result.
GdsOfSession(ans) ==
    /\ gds.pc = "of_session"
    /\ gds' = [gds EXCEPT !.loginctl = @ + 1, !.ans = ans, !.pc = "done",
                          !.out = get_display_server_of_session(ans, gds.xdg_session_type)]
    /\ UNCHANGED <<regVars, audioVars, DISTRO, LOG_SCRAP_COUNT, scrap_logged, try_log_calls,
                   map_err_in,
                   map_err_out, exited, play_last, gsi>>

\* The caller has the result.
GdsReturn ==
    /\ gds.pc = "done"
    /\ gds' = NoGds
    /\ UNCHANGED <<regVars, audioVars, DISTRO, LOG_SCRAP_COUNT, scrap_logged, try_log_calls,
                   map_err_in,
                   map_err_out, exited, play_last, gsi>>

ForcedValues == EnvVar({"x11", "wayland", ""})
SessionTypeValues == EnvVar({"", "wayland", "Wayland"})
SessionIdValues == EnvVar({"", "7"})

DisplayServerNext ==
    \/ \E f \in ForcedValues : \E ty \in SessionTypeValues : \E id \in SessionIdValues :
          GdsForced(f, ty, id)
    \/ \E ok \in BOOLEAN : GdsLoginctl(ok)
    \/ \E ok \in BOOLEAN : \E lines \in LoginctlOutputs :
          \E p \in {"", INVALID_SESSION, "7"} : GdsSession(ok, lines, p)
    \/ \E ans \in SessionAnswers : GdsOfSession(ans)
    \/ GdsReturn

SpecDisplayServer == Init /\ [][DisplayServerNext]_vars

(* ---------------------------- get_sound_inputs ------------------------ *)
MaxInputCalls == 3
MaxInputLists == 2

\* try_start_cpal_asio, lines 105-120: None when the Asio host cannot be had,
\* else the worker is spawned and the two channel ends are kept.
AsioOutcomes == {"none", "some"}

\* get_sound_inputs_(&host), lines 89-102: the names of the input devices the
\* host has at the time of the call (the lists the host goes through are
\* numbered).
get_sound_inputs_(host_inputs) == host_inputs

\* Lines 72-74: CPAL_ASIO_TX_RX.lock(); the guard lives to the end of the
\* function.  The first lock of the lazy_static runs try_start_cpal_asio.
\* Calls are numbered in the order in which they take the lock.
GsiLock(t, asio) ==
    /\ gsi.th[t].pc = "idle"
    /\ gsi.mutex = 0
    /\ gsi.calls < MaxInputCalls
    /\ IF gsi.asio = "uninit" THEN asio \in AsioOutcomes ELSE asio = gsi.asio
    /\ gsi' = [gsi EXCEPT !.asio = asio, !.mutex = t, !.calls = @ + 1,
                          !.th[t] = [NoCall EXCEPT !.call = gsi.calls + 1,
                                                   !.pc = IF asio = "some" THEN "send"
                                                          ELSE "host"]]
    /\ UNCHANGED <<regVars, audioVars, DISTRO, LOG_SCRAP_COUNT, scrap_logged, try_log_calls,
                   map_err_in,
                   map_err_out, exited, play_last, gds>>

\* The call returns `res` and its guard of CPAL_ASIO_TX_RX is dropped.
GsiResult(t, res, for, inputs) ==
    [gsi EXCEPT !.mutex = 0,
                !.th[t] = [@ EXCEPT !.pc = "done", !.res = res, !.for = for,
                                    !.inputs = inputs]]

\* Line 75: tx.send(CpalRequest::SoundInputs)?; the send fails when the
\* worker has left its loop and dropped the receiver.
GsiSend(t) ==
    /\ gsi.th[t].pc = "send"
    /\ gsi' = IF worker_alive
              THEN [gsi EXCEPT !.requests = Append(@, gsi.th[t].call), !.th[t].pc = "recv"]
              ELSE GsiResult(t, "SendError", 0, 0)
    /\ UNCHANGED <<regVars, audioVars, DISTRO, LOG_SCRAP_COUNT, scrap_logged, try_log_calls,
                   map_err_in,
                   map_err_out, exited, play_last, gds>>

\* Lines 76-82, rx.recv_timeout(timeout): the first response in the channel,
\* whichever request it answers, is the call's result; with the channel
\* empty the timeout elapses (or, the worker being gone, the channel is
\* found disconnected) and the call returns the error.
GsiRecv(t) ==
    /\ gsi.th[t].pc = "recv"
    /\ gsi' = IF gsi.responses # <<>>
              THEN [GsiResult(t, "Ok", Head(gsi.responses).for, Head(gsi.responses).inputs)
                       EXCEPT !.responses = Tail(@)]
              ELSE GsiResult(t, IF worker_alive THEN "Timeout" ELSE "Disconnected", 0, 0)
    /\ UNCHANGED <<regVars, audioVars, DISTRO, LOG_SCRAP_COUNT, scrap_logged, try_log_calls,
                   map_err_in,
                   map_err_out, exited, play_last, gds>>

\* Lines 85-86, without a worker: the default host is asked by the caller.
GsiHost(t) ==
    /\ gsi.th[t].pc = "host"
    /\ gsi' = GsiResult(t, "Ok", gsi.th[t].call, get_sound_inputs_(gsi.host_inputs))
    /\ UNCHANGED <<regVars, audioVars, DISTRO, LOG_SCRAP_COUNT, scrap_logged, try_log_calls,
                   map_err_in,
                   map_err_out, exited, play_last, gds>>

\* The caller has the result.
GsiReturn(t) ==
    /\ gsi.th[t].pc = "done"
    /\ gsi' = [gsi EXCEPT !.th[t] = NoCall]
    /\ UNCHANGED <<regVars, audioVars, DISTRO, LOG_SCRAP_COUNT, scrap_logged, try_log_calls,
                   map_err_in,
                   map_err_out, exited, play_last, gds>>

\* The worker takes the SoundInputs request of a get_sound_inputs call off
\* its queue and sends the host's list on the response channel, lines
\* 129-132.  The response carries nothing that says which request it
\* answers; the number kept with it here is the number of that request.
AnswerSoundInputs ==
    /\ AtRecv
    /\ gsi.requests # <<>>
    /\ gsi' = [gsi EXCEPT !.requests = Tail(@),
                          !.responses = Append(@, [for |-> Head(gsi.requests),
                                                   inputs |-> get_sound_inputs_(gsi.host_inputs)])]
    /\ audio_last' = [req |-> "sound_inputs", id |-> 0, tx |-> 0, dup |-> FALSE]
    /\ UNCHANGED <<regVars, DISTRO, LOG_SCRAP_COUNT, scrap_logged, try_log_calls,
                   map_err_in,
                   map_err_out, exited, play_last, gds>>
    /\ UNCHANGED <<subscribers, stream_config, sinks, device_opens, audio_seen, audio_pc,
                   audio_panicked, worker_alive, rx_alive, captured, unsubscribed>>

\* An input device is plugged in or removed: the host has another list.
HostInputsChange ==
    /\ gsi.host_inputs + 1 < MaxInputLists
    /\ gsi' = [gsi EXCEPT !.host_inputs = @ + 1]
    /\ UNCHANGED <<regVars, audioVars, DISTRO, LOG_SCRAP_COUNT, scrap_logged, try_log_calls,
                   map_err_in,
                   map_err_out, exited, play_last, gds>>

\* A Close request is queued behind the requests sent before it.
SoundInputsNext ==
    \/ \E t \in Threads : \E asio \in AsioOutcomes : GsiLock(t, asio)
    \/ \E t \in Threads : GsiSend(t)
    \/ \E t \in Threads : GsiRecv(t)
    \/ \E t \in Threads : GsiHost(t)
    \/ \E t \in Threads : GsiReturn(t)
    \/ AnswerSoundInputs
    \/ HostInputsChange
    \/ (gsi.requests = <<>> /\ Close("Close"))

SpecSoundInputs == Init /\ [][SoundInputsNext]_vars

Next ==
    RegistryNext \/ AudioNext \/ ClassifyNext \/ PlayNext \/ DisplayServerNext
    \/ SoundInputsNext \/ TryLogNext

Spec == Init /\ [][Next]_vars

(* ------------------------------ registry claims ------------------------ *)
Registry == infos[CAP_DISPLAY_INFO]
\* Capturers opened by population attempt `a` for region `i` (regions from 1).
OpenedFor(a, i) == {c \in DOMAIN caps : caps[c].attempt = a /\ caps[c].idx = i}
\* Capturers some running population still holds in its local Vec.
InFlight == UNION {{loc[t].capturers[k] : k \in DOMAIN loc[t].capturers} :
                     t \in {u \in Threads : pc[u] = "ci_open"}}
Owned == IF Populated THEN {Registry.capturers[k] : k \in DOMAIN Registry.capturers} ELSE {}

\* C1: under any interleaving of check_init calls, a populated registry is
\* the product of exactly one enumeration that did not fail since the
\* registry was last empty, exactly one native capturer was opened for each
\* of its regions and the registry holds it, no second CapDisplayInfo is
\* live, and no opened capturer is lost (each is owned by the registry,
\* held by the running population, or released).
C1_ExactlyOnePopulation ==
    /\ Populated =>
         /\ enumCount = failCount + 1
         /\ \A a \in DOMAIN infos : infos[a].live <=> a = CAP_DISPLAY_INFO
         /\ Len(Registry.capturers) = Len(Registry.rects)
         /\ \A i \in 1..Len(Registry.rects) :
               OpenedFor(Registry.attempt, i) = {Registry.capturers[i]}
    /\ \A c \in DOMAIN caps : c \in Owned \/ c \in InFlight \/ Releases(c) > 0

\* A thread that saw the registry empty holds the write lock and finds the
\* registry populated by the thread that won the race.
C1_Witness ==
    \E t \in Threads : \E u \in Threads \ {t} :
        /\ pc[t] = "ci_recheck" /\ writer = t /\ Populated
        /\ Len(Registry.capturers) = MaxDisplays
        /\ pc[u] = "ret" /\ op[u] = "check_init" /\ ret[u].res = "Ok"

\* C2: every handle get_capturer returned for index k from a live registry
\* holds the pointer the registry stores for k, which is the one capturer
\* the population opened for region k; so two handles for the same k hold
\* the same pointer, and get_capturer has opened no capturer of its own.
C2_HandlesShareTheOneCapturer ==
    \A h \in DOMAIN handles :
        ~handles[h].ub =>
            LET info == infos[handles[h].info] IN
            /\ handles[h].ptr = info.capturers[handles[h].idx + 1]
            /\ OpenedFor(info.attempt, handles[h].idx + 1) = {handles[h].ptr}
            /\ \A g \in DOMAIN handles :
                  (~handles[g].ub /\ handles[g].info = handles[h].info
                                  /\ handles[g].idx = handles[h].idx)
                  => handles[g].ptr = handles[h].ptr

\* Two consumers hold handles for the same index of the populated registry.
C2_Witness ==
    \E h \in DOMAIN handles : \E g \in DOMAIN handles :
        /\ h # g
        /\ ~handles[h].ub /\ ~handles[g].ub
        /\ handles[h].info = CAP_DISPLAY_INFO /\ handles[g].info = CAP_DISPLAY_INFO
        /\ handles[h].idx = handles[g].idx
        /\ handles[h].ptr = handles[g].ptr

\* C3: every native capturer is released at most once, and never by the
\* drop of a consumer's handle.
C3_ReleasedOnceAndOnlyByClear ==
    \A c \in DOMAIN caps : Releases(c) <= 1 /\ caps[c].by_drop = 0

\* A step of thread t that finishes a call of `o`.
Finishes(t, o) == pc[t] # "ret" /\ pc'[t] = "ret" /\ op'[t] = o /\ ~crashed'

\* The parts of C4 that do not depend on which indices are requested after
\* the repopulation: clear() leaves the slot at 0; get_capturer and
\* get_primary do not touch the slot or the CapDisplayInfo heap; a
\* get_capturer that reads the empty slot fails and issues no handle.
C4_FailsWhileEmpty(t) ==
    /\ (Finishes(t, "clear") /\ ~is_x11) => CAP_DISPLAY_INFO' = 0
    /\ ((Finishes(t, "get_capturer") \/ Finishes(t, "get_primary")
         \/ (pc[t] = "idle" /\ pc'[t] \in {"gc_deref", "gp_deref"}))
        => (CAP_DISPLAY_INFO' = CAP_DISPLAY_INFO /\ infos' = infos))
    /\ (Finishes(t, "get_capturer") /\ ~is_x11 /\ loc'[t].addr = 0)
        => (ret'[t].res = NoInfo /\ handles' = handles)

\* get_capturer(k) finishes on a live CapDisplayInfo that was installed
\* after a clear(), for a k that was valid before that clear().
AfterRepopulation(t) ==
    /\ Finishes(t, "get_capturer")
    /\ pc[t] = "gc_deref"
    /\ loc[t].addr > 1
    /\ infos[loc[t].addr].live
    /\ loc[t].idx < Len(infos[loc[t].addr - 1].rects)

\* C4 as claimed: after clear() get_capturer(k) fails, get_capturer and
\* get_primary leave the registry empty, and once check_init has
\* repopulated it get_capturer(k) succeeds for every previously valid k.
C4_Original ==
    [][\A t \in Threads :
          /\ C4_FailsWhileEmpty(t)
          /\ AfterRepopulation(t) => ret'[t].res = "Ok"]_vars

\* C4 (amended): as C4, but after the repopulation get_capturer(k) succeeds
\* for the previously valid k that are below the number of regions the
\* repopulation enumerated, and fails with the invalid-index error for the
\* others.
C4_ClearInvalidation ==
    [][\A t \in Threads :
          /\ C4_FailsWhileEmpty(t)
          /\ AfterRepopulation(t) =>
                IF loc[t].idx < Len(infos[loc[t].addr].rects)
                THEN ret'[t].res = "Ok"
                ELSE ret'[t].res = InvalidIndex]_vars

\* A get_capturer call has returned a handle from a registry that was
\* repopulated after a clear(), while another has failed on the empty one.
C4_Witness ==
    \E t \in Threads :
        /\ pc[t] = "ret" /\ op[t] = "get_capturer"
        /\ ret[t].res = "Ok" /\ ~ret[t].ub
        /\ loc[t].addr > 1
        /\ ~infos[1].live

\* C5: no frame() call through a handle issued before a clear() has
\* dereferenced a capturer that clear() released.
C5_NoFrameOnReleasedCapturer == ~stale_frame

\* C6: get_capturer(idx) on a live CapDisplayInfo with idx at or above the
\* number of regions returns the invalid-index error and leaves the slot,
\* the CapDisplayInfo heap (regions, primary, capturer list), the native
\* capturers and the issued handles as they were.
C6_InvalidIndexChangesNothing ==
    [][\A t \in Threads :
          (/\ Finishes(t, "get_capturer")
           /\ pc[t] = "gc_deref"
           /\ infos[loc[t].addr].live
           /\ loc[t].idx >= Len(infos[loc[t].addr].rects))
          => (/\ ret'[t].res = InvalidIndex
              /\ UNCHANGED <<CAP_DISPLAY_INFO, infos, caps, handles, issued, writer>>)]_vars

\* get_capturer has returned the invalid-index error for an index just past
\* the last region of the populated registry.
C6_Witness ==
    \E t \in Threads :
        /\ pc[t] = "ret" /\ op[t] = "get_capturer"
        /\ ret[t].res = InvalidIndex /\ ~ret[t].ub
        /\ Populated /\ loc[t].addr = CAP_DISPLAY_INFO
        /\ loc[t].idx = Len(Registry.rects)
        /\ Len(Registry.rects) > 0

\* The registry, when populated, holds every region of its enumeration with
\* its capturer, and a population in progress is invisible: the slot is 0
\* and the populating thread holds the write lock.
Complete ==
    /\ Populated =>
         /\ Len(Registry.capturers) = Len(Registry.rects)
         /\ \A k \in DOMAIN Registry.capturers :
               caps[Registry.capturers[k]].attempt = Registry.attempt
    /\ \A t \in Threads : pc[t] = "ci_open" => (CAP_DISPLAY_INFO = 0 /\ writer = t)

\* C7: population is all-or-nothing.  A check_init that returns an error
\* from Display::all or from Capturer::new leaves the slot at 0 and the
\* write lock released, and in every state the registry is empty or complete.
C7_AllOrNothing ==
    [][/\ Complete'
       /\ \A t \in Threads :
             (/\ pc[t] \in {"ci_recheck", "ci_open"}
              /\ pc'[t] = "ret"
              /\ ret'[t].res \in {"Display::all failed", "Capturer::new failed"})
             => (CAP_DISPLAY_INFO' = 0 /\ writer' = 0)]_vars

\* A population failed at its second capturer, after opening the first; the
\* registry is empty and unlocked.
C7_Witness ==
    \E t \in Threads :
        /\ pc[t] = "ret" /\ ret[t].res = "Capturer::new failed"
        /\ Len(loc[t].capturers) >= 1
        /\ CAP_DISPLAY_INFO = 0 /\ writer = 0

(* ------------------------------- audio claims -------------------------- *)
\* C8: the service holds an input stream exactly when it has subscribers.
C8_StreamIffSubscribers == (stream_config # "None") <=> (subscribers # <<>>)

\* C9: as long as the device has opened every time and nothing was
\* unsubscribed, the subscribers were served by a single device open and
\* the channel of each of them holds the one negotiated format message.
C9_OneOpenOneFormat ==
    (audio_seen = {} /\ subscribers # <<>>) =>
        /\ device_opens = 1
        /\ \E f \in {[kind |-> "Format",
                      cfg |-> [sample_rate |-> SampleRate(r), channels |-> c]] :
                         r \in NativeRates, c \in 1..2} :
              \A k \in DOMAIN subscribers :
                  \E m \in DOMAIN sinks[subscribers[k].tx] : sinks[subscribers[k].tx][m] = f

NoDuplicateIds ==
    \A k \in DOMAIN subscribers : \A l \in DOMAIN subscribers :
        subscribers[k].id = subscribers[l].id => k = l

\* C10: a subscribe whose id is already subscribed leaves the subscriber
\* list, the stream, the device and every channel as they were, and the
\* subscriber list never holds an id twice.
C10_SubscribeIdempotent ==
    [][/\ (audio_last'.req = "subscribe" /\ HasId(subscribers, audio_last'.id))
          => UNCHANGED <<subscribers, stream_config, sinks, device_opens>>
       /\ NoDuplicateIds']_vars

\* The worker has handled a subscribe for an id that is subscribed with
\* another channel.
C10_Witness ==
    /\ audio_last.req = "subscribe" /\ audio_last.dup
    /\ \E k \in DOMAIN subscribers :
          subscribers[k].id = audio_last.id /\ subscribers[k].tx # audio_last.tx

\* Channels that got a captured buffer in this step.
GotData(tx) ==
    /\ Len(sinks'[tx]) > Len(sinks[tx])
    /\ sinks'[tx][Len(sinks'[tx])].kind = "Data"

\* C11: once the worker has handled unsubscribe(id), and until id is
\* subscribed again, no captured buffer reaches a channel on account of that
\* subscriber: every channel a buffer is delivered to belongs to a subscriber
\* whose id is not unsubscribed, and an unsubscribed id is in no subscriber
\* entry the fan-out iterates.
C11_NoDeliveryAfterUnsubscribe ==
    [][\A tx \in Sinks :
          GotData(tx) =>
             \E k \in DOMAIN subscribers :
                 subscribers[k].tx = tx /\ subscribers[k].id \notin unsubscribed]_vars

\* A buffer was fanned out while an id is unsubscribed whose channel had
\* received an earlier buffer; this one went to another channel only.
C11_Witness ==
    /\ audio_last.req = "data" /\ captured = 2
    /\ unsubscribed # {}
    /\ \E tx1, tx2 \in Sinks :
          /\ tx1 # tx2
          /\ sinks[tx1] = <<[kind |-> "Data", n |-> 1]>>
          /\ sinks[tx2] = <<[kind |-> "Data", n |-> 2]>>
          /\ \A k \in DOMAIN subscribers : subscribers[k].tx = tx2

\* The buffers on every channel are in the order the device produced them,
\* none of them twice.
InCaptureOrder ==
    \A tx \in Sinks : \A i, j \in DOMAIN sinks[tx] :
        (i < j /\ sinks[tx][i].kind = "Data" /\ sinks[tx][j].kind = "Data")
            => sinks[tx][i].n < sinks[tx][j].n

\* The subscribe of subscriber k has been handled to its end.
SubscribeCompleted(k) == audio_pc = "recv" \/ subscribers[k].id # audio_last.id

\* C12: every channel holds its buffers in capture order, and when the
\* device, which has opened every time, produces a buffer, every subscriber
\* whose subscribe has completed and whose channel is reachable receives it.
C12_EveryBufferInOrder ==
    [][/\ InCaptureOrder'
       /\ (captured' = captured + 1 /\ "open failed" \notin audio_seen) =>
             \A k \in DOMAIN subscribers :
                 (SubscribeCompleted(k) /\ subscribers[k].tx \in rx_alive) =>
                     /\ sinks'[subscribers[k].tx] # <<>>
                     /\ sinks'[subscribers[k].tx][Len(sinks'[subscribers[k].tx])]
                           = [kind |-> "Data", n |-> captured + 1]]_vars

\* This step is the worker handling a subscribe whose device open failed.
OpenFailed ==
    /\ audio_last'.req = "subscribe" /\ ~audio_last'.dup
    /\ stream_config = "None"
    /\ device_opens' = device_opens

\* C13: a subscribe whose device open fails leaves no stream and the worker
\* in its loop at recv_timeout, not panicked; and the worker leaves its loop
\* only for a Close request or a disconnected request channel, so what is
\* sent to it after the failure is handled.
C13_OpenFailureKeepsWorker ==
    [][/\ OpenFailed =>
             /\ stream_config' = "None" /\ ~StreamLive'
             /\ AtRecv' /\ ~audio_panicked'
       /\ (worker_alive /\ ~worker_alive') => audio_last'.req \in {"Close", "Disconnected"}]_vars

\* Every open has failed; a subscriber that was added by such a subscribe was
\* unsubscribed afterwards, and the worker has just answered a device-list
\* request.
C13_Witness ==
    /\ device_opens = 0 /\ "open failed" \in audio_seen
    /\ unsubscribed # {}
    /\ subscribers # <<>>
    /\ audio_last.req = "sound_inputs"
    /\ AtRecv

\* The last message on channel tx is buffer n.
LastIsData(chans, tx, n) ==
    chans[tx] # <<>> /\ chans[tx][Len(chans[tx])] = [kind |-> "Data", n |-> n]

\* C14: no thread of the audio service ever panics on a failed send, and a
\* fan-out step leaves the stream running and the worker as it was and puts
\* the buffer on the channel of every current subscriber whose receiver
\* exists, whatever has become of the other subscribers' receivers.
C14_FailedDeliverySwallowed ==
    [][/\ ~audio_panicked'
       /\ audio_last'.req = "data" =>
             /\ StreamLive' /\ worker_alive' = worker_alive
             /\ \A k \in DOMAIN subscribers :
                   subscribers[k].tx \in rx_alive
                      => LastIsData(sinks', subscribers[k].tx, captured')]_vars

\* The last event was a fan-out in which the send to an earlier subscriber
\* of the list failed, its receiver being gone, and a later subscriber got
\* the buffer.
C14_Witness ==
    /\ audio_last.req = "data" /\ ~audio_panicked /\ worker_alive
    /\ \E k, l \in DOMAIN subscribers :
          /\ k < l
          /\ subscribers[k].tx \notin rx_alive
          /\ ~LastIsData(sinks, subscribers[k].tx, captured)
          /\ subscribers[l].tx \in rx_alive
          /\ LastIsData(sinks, subscribers[l].tx, captured)

(* --------------------------- registry claims, 2 ------------------------ *)
\* C15: is_inited returns the prompt message exactly when the display server
\* is not x11 and the registry slot is empty at the time of the call: never
\* under x11, never while the registry is populated, and again after clear().
C15_PendingSelection ==
    [][\A t \in Threads :
          Finishes(t, "is_inited") =>
             (ret'[t].res = "Some" <=> (~is_x11 /\ ~Populated))]_vars

\* is_inited has returned the prompt on a registry that had been populated
\* and was cleared.
C15_Witness ==
    \E t \in Threads :
        /\ pc[t] = "ret" /\ op[t] = "is_inited" /\ ret[t].res = "Some"
        /\ ~Populated /\ ~crashed
        /\ \E a \in DOMAIN infos : ~infos[a].live

\* C16: under x11 the registry is never touched: no display enumeration, no
\* capturer opened or released, no handle, no bounds update, the slot 0 and
\* never write-locked; check_init and clear return Ok and get_capturer
\* returns its not-wayland error.
C16_LegacyServerUntouched ==
    is_x11 =>
        /\ ~Populated /\ writer = 0
        /\ infos = <<>> /\ caps = <<>> /\ handles = <<>> /\ issued = 0
        /\ attempts = 0 /\ enumCount = 0 /\ mouse = <<>> /\ ~crashed
        /\ \A t \in Threads :
              pc[t] = "ret" =>
                 /\ op[t] \in {"check_init", "clear"} => ret[t].res = "Ok"
                 /\ op[t] = "get_capturer" => ret[t].res = NotWayland

\* Under x11 one thread has come back from clear() and another from
\* get_capturer.
C16_Witness ==
    /\ is_x11
    /\ \E t, u \in Threads :
          /\ pc[t] = "ret" /\ op[t] = "clear"
          /\ pc[u] = "ret" /\ op[u] = "get_capturer" /\ ret[u].res = NotWayland

(* --------------------------- classifier claims ------------------------- *)
\* The message says that the compositor IPC gave no reply: it begins with
\* that text.
IndicatesNoReply(err) == err # <<>> /\ err[1] = NoReply
\* map_err_scrap has been called and has returned an error value.
ReturnedError == map_err_out # <<>> /\ map_err_out # Exit

\* C17: the fatal rule comes first.  The last call of map_err_scrap ended the
\* process and returned nothing exactly when its message indicates that no
\* reply was received, whatever the distribution; for any other message the
\* process goes on and an error value was returned.
C17_FatalFirst ==
    /\ exited <=> IndicatesNoReply(map_err_in)
    /\ exited <=> map_err_out = Exit
    /\ (~exited /\ map_err_in # <<>>) => ReturnedError

\* The process has exited on a no-reply message that also mentions pipewire,
\* on an Ubuntu below the minimum version, after an earlier call returned.
C17_Witness ==
    /\ exited /\ map_err_out = Exit
    /\ map_err_in = <<NoReply, "pipewire">>
    /\ DISTRO.init /\ DISTRO.name = "Ubuntu" /\ DISTRO.version_id = <<50, 48, 46, 48, 52>>

\* The host is Ubuntu, and its VERSION_ID orders below the minimum ("" too).
IsUbuntu == DISTRO.name \in {"Ubuntu", "ubuntu"}
BelowMinimum == StrLess(DISTRO.version_id, <<50, 49>>)
\* The message mentions the desktop portal, pipewire or dbus.
MentionsPortalStack(err) ==
    \E i \in DOMAIN err : err[i] \in {"org.freedesktop.portal", "pipewire", "dbus"}

\* C18 as stated: a non-fatal message gets the upgrade text on an Ubuntu
\* below the minimum version, else the alternate-path text when it mentions
\* the portal, pipewire or dbus, else the x11-required text.
C18_Original ==
    ReturnedError =>
        map_err_out = IF IsUbuntu /\ BelowMinimum THEN SCRAP_UBUNTU_HIGHER_REQUIRED
                      ELSE IF MentionsPortalStack(map_err_in)
                           THEN SCRAP_OTHER_VERSION_OR_X11_REQUIRED
                           ELSE SCRAP_X11_REQUIRED

\* C18, amended: as above, but on an Ubuntu that is not below the minimum
\* version the raw message is returned as it came, whatever it mentions; the
\* alternate-path and x11-required texts are for the other distributions.
C18_Classification ==
    ReturnedError =>
        map_err_out = IF IsUbuntu
                      THEN IF BelowMinimum THEN SCRAP_UBUNTU_HIGHER_REQUIRED ELSE map_err_in
                      ELSE IF MentionsPortalStack(map_err_in)
                           THEN SCRAP_OTHER_VERSION_OR_X11_REQUIRED
                           ELSE SCRAP_X11_REQUIRED

\* On an Ubuntu without VERSION_ID a message that mentions pipewire got the
\* upgrade text.
C18_Witness ==
    /\ DISTRO.init /\ DISTRO.name = "Ubuntu" /\ DISTRO.version_id = <<>>
    /\ map_err_in = <<"x", "pipewire">>
    /\ map_err_out = SCRAP_UBUNTU_HIGHER_REQUIRED

(* ------------------------------ play() claims -------------------------- *)
Ladder == {8000, 12000, 16000, 24000, 48000}
Played == play_last.out.ok
NativeRate == play_last.dev.rate
EncodeRate == play_last.out.format.sample_rate

\* C19 as stated: the negotiated rate is the largest rung of the ladder that
\* does not exceed the native rate, so it is a rung and never above the
\* native rate; 44100 gives 24000 and 8000 gives 8000.
C19_Original ==
    Played =>
        /\ EncodeRate \in Ladder
        /\ EncodeRate <= NativeRate
        /\ \A l \in Ladder : l <= NativeRate => l <= EncodeRate

\* C19, amended: the negotiated rate is always a rung; for a native rate of
\* 8000 or more it is the largest rung that does not exceed the native rate,
\* and for a native rate below 8000 it is 8000.
C19_LadderSnap ==
    Played =>
        /\ EncodeRate \in Ladder
        /\ NativeRate >= 8000 =>
              /\ EncodeRate <= NativeRate
              /\ \A l \in Ladder : l <= NativeRate => l <= EncodeRate
        /\ NativeRate < 8000 => EncodeRate = 8000
        /\ NativeRate = 44100 => EncodeRate = 24000
        /\ NativeRate = 8000 => EncodeRate = 8000

\* play() has negotiated 24000 for a device at 44100.
C19_Witness == Played /\ NativeRate = 44100 /\ EncodeRate = 24000

(* ------------------------- display server claims ----------------------- *)
GdsDone == gds.pc = "done"
\* The session manager was asked and a session was found.
SessionFound == ~gds.forced.set /\ gds.loginctl_ok /\ gds.session # ""
NoSession == ~gds.forced.set /\ gds.loginctl_ok /\ gds.session = ""
\* The type query of the session gave nothing.
TypeEmpty == gds.ans.type \in {"ERR", ""}
TtyWithX == gds.ans.type = "tty" /\ gds.ans.xorg = "Xorg"
TtyWithoutX == gds.ans.type = "tty" /\ gds.ans.xorg # "Xorg"
XdgType == gds.xdg_session_type
LowerCase(s) == IF s = "Wayland" THEN "wayland" ELSE s

\* The first three rules of the resolution: the forced variable, without any
\* loginctl call; "x11" when loginctl cannot be called; the type of the
\* session, and "x11" for a tty session with an X server on its tty.
FirstRules ==
    /\ gds.forced.set => (gds.out = gds.forced.val /\ gds.loginctl = 0)
    /\ (~gds.forced.set /\ ~gds.loginctl_ok) => gds.out = "x11"
    /\ (SessionFound /\ ~TypeEmpty /\ gds.ans.type # "tty") => gds.out = gds.ans.type
    /\ (SessionFound /\ TtyWithX) => gds.out = "x11"

\* C20 as stated: the first three rules, and when no type was resolved (no
\* session, an empty type, or a tty without X server) the result is the
\* XDG_SESSION_TYPE variable, and "x11" when that is not set.
C20_Original ==
    GdsDone =>
        /\ FirstRules
        /\ (NoSession \/ (SessionFound /\ (TypeEmpty \/ TtyWithoutX)))
              => gds.out = IF XdgType.set THEN XdgType.val ELSE "x11"

\* C20, amended: the first three rules; with no session the result is the
\* variable as it is set and "x11" when it is not set; with a session of
\* empty type it is the variable in lower case, and "x11" when the variable
\* is not set or empty; with a tty session without X server it is the same,
\* except that it is "tty" when the variable is not set.
C20_Resolution ==
    GdsDone =>
        /\ FirstRules
        /\ NoSession => gds.out = IF XdgType.set THEN XdgType.val ELSE "x11"
        /\ (SessionFound /\ TypeEmpty)
              => gds.out = IF XdgType.set /\ XdgType.val # "" THEN LowerCase(XdgType.val)
                           ELSE "x11"
        /\ (SessionFound /\ TtyWithoutX)
              => gds.out = IF ~XdgType.set THEN "tty"
                           ELSE IF XdgType.val # "" THEN LowerCase(XdgType.val)
                           ELSE "x11"

\* A tty session with an X server on its tty resolved to "x11" although
\* XDG_SESSION_TYPE says wayland.
C20_Witness ==
    /\ GdsDone /\ SessionFound /\ TtyWithX
    /\ XdgType.set /\ XdgType.val = "wayland"
    /\ gds.out = "x11"

(* ----------------------- get_sound_inputs claims ----------------------- *)
\* C21: a get_sound_inputs call that returns a device list returns the
\* worker's answer to the request this call sent (with the host's list as the
\* worker read it for that request), never the answer to the request of an
\* earlier call; and it returns the timeout error only when the response
\* channel held no answer to its request.
C21_OwnAnswerOrTimeout ==
    \A t \in Threads :
        gsi.th[t].pc = "done" =>
            /\ gsi.th[t].res = "Ok" => gsi.th[t].for = gsi.th[t].call
            /\ gsi.th[t].res = "Timeout" =>
                  \A k \in DOMAIN gsi.responses : gsi.responses[k].for # gsi.th[t].call

(* --------------------------- registry claims, 3 ------------------------ *)
\* This step of thread t installs the CapDisplayInfo its population built.
Installs(t) == pc[t] = "ci_open" /\ CAP_DISPLAY_INFO = 0 /\ CAP_DISPLAY_INFO' # 0

\* C22: the primary index a successful population stores is the index
\* get_primary_2 computed for the enumerated displays, and get_primary
\* returns the stored index of the registry it read, and the
\* no-display-info error when it read the empty slot.
C22_PrimaryIsPolicyChoice ==
    [][\A t \in Threads :
          /\ Installs(t) => infos'[CAP_DISPLAY_INFO'].primary = loc[t].primary_2
          /\ (Finishes(t, "get_primary") /\ pc[t] = "gp_deref" /\ infos[loc[t].addr].live)
                => (ret'[t].res = "Ok" /\ ret'[t].val = infos[loc[t].addr].primary)
          /\ (Finishes(t, "get_primary") /\ pc[t] = "idle")
                => (CAP_DISPLAY_INFO = 0 /\ ret'[t].res = NoInfo)]_vars

\* The positions at which a getter reads the CapDisplayInfo behind the
\* address it copied.
Derefs == {"gd_deref", "gp_deref", "gc_deref"}

\* C23: registry reads and clear() exclude each other: whenever get_displays,
\* get_primary or get_capturer reads the contents of the CapDisplayInfo
\* (display list, primary, rectangles, capturers), that CapDisplayInfo has
\* not been released by a clear().
C23_ReadsExcludeClear ==
    [][\A t \in Threads :
          (pc[t] \in Derefs /\ pc'[t] = "ret") => infos[loc[t].addr].live]_vars

\* The bounding rectangle of a non-empty list of regions.
LeastOf(S) == CHOOSE m \in S : \A x \in S : m <= x
GreatestOf(S) == CHOOSE m \in S : \A x \in S : m >= x
BoundsOf(rects) ==
    <<LeastOf({rects[k].origin[1] : k \in DOMAIN rects}),
      GreatestOf({rects[k].origin[1] + rects[k].width : k \in DOMAIN rects}),
      LeastOf({rects[k].origin[2] : k \in DOMAIN rects}),
      GreatestOf({rects[k].origin[2] + rects[k].height : k \in DOMAIN rects})>>
ExampleRects ==
    <<[origin |-> <<0, 0>>, width |-> 1920, height |-> 1080],
      [origin |-> <<1920, 0>>, width |-> 1280, height |-> 1024]>>

\* C24: the step that installs a population hands exactly one bounds update
\* to update_mouse_resolution_, the bounding rectangle (minx, maxx, miny,
\* maxy) of the installed regions, which is (0, 3200, 0, 1080) for the two
\* regions of the example, and check_init returns Ok from that step whatever
\* the update comes to; no other step hands over an update: not a check_init
\* that finds the registry populated at its first or at its second look, and
\* not one that fails.
C24_OneBoundsUpdate ==
    [][~crashed' =>
         /\ \A t \in Threads :
               Installs(t) =>
                  LET rects == infos'[CAP_DISPLAY_INFO'].rects IN
                  /\ rects # <<>>
                  /\ mouse' = Append(mouse, BoundsOf(rects))
                  /\ rects = ExampleRects => mouse'[Len(mouse')] = <<0, 3200, 0, 1080>>
                  /\ IF op[t] = "check_init"
                     THEN pc'[t] = "ret" /\ ret'[t].res = "Ok"
                     ELSE pc'[t] = "gd_read"
         /\ (\A t \in Threads : ~Installs(t)) => mouse' = mouse]_vars

\* One check_init has failed at a capturer and a later one has populated the
\* registry with the two regions of the example: the one update is theirs.
C24_Witness ==
    /\ Populated /\ Registry.rects = ExampleRects
    /\ mouse = <<(<<0, 3200, 0, 1080>>)>>
    /\ \E t, u \in Threads :
          /\ pc[t] = "ret" /\ op[t] = "check_init" /\ ret[t].res = "Ok"
          /\ pc[u] = "ret" /\ op[u] = "check_init" /\ ret[u].res = "Capturer::new failed"

(* ------------------------------ audio claims, 2 ------------------------ *)
\* The last event was a fan-out in which the send to the subscriber `id`
\* failed, the receiver of its channel being gone.
FailedDelivery(id) ==
    /\ audio_last.req = "data"
    /\ \E k \in DOMAIN subscribers :
          subscribers[k].id = id /\ subscribers[k].tx \notin rx_alive

\* C25: a subscriber to which a delivery has failed is eventually no longer
\* in the subscriber list, whether or not an unsubscribe for its id comes.
C25_UnreachableRemoved ==
    \A id \in SubIds : FailedDelivery(id) ~> ~HasId(subscribers, id)

(* ------------------------------ try_log claims ------------------------- *)
\* Occurrences that count: those before the cap was reached.
Counted == IF try_log_calls < LogCap THEN try_log_calls ELSE LogCap

C27_ListsAgree ==
    Populated =>
        /\ Len(Registry.rects) = Registry.display_infos
        /\ Len(Registry.capturers) = Registry.display_infos
        /\ \A idx \in 0..MaxDisplays :
              idx < Registry.display_infos =>
                 (idx + 1 \in DOMAIN Registry.rects /\ idx + 1 \in DOMAIN Registry.capturers)
        /\ Registry.primary < Registry.display_infos

\* Thread t is inside a registry call that has not returned.
InCall(t) == pc[t] \notin {"idle", "ret"}

\* C28: every registry call that a thread is inside of eventually returns
\* to its caller.
C28_EveryCallReturns ==
    \A t \in Threads : InCall(t) ~> (pc[t] = "ret" /\ ~crashed)

\* Capturers a failed population had opened before the one that failed.
OpenedByFailed == {c \in DOMAIN caps : caps[c].by_fail > 0}

\* C29: a capturer that a population had opened before a later
\* Capturer::new of the same attempt failed is released exactly once, by the
\* drop of that attempt's local Vec, and is in no CapDisplayInfo and behind
\* no handle; and when a population fails every capturer it had opened is
\* among these.
C29_FailedPopulationReleases ==
    /\ \A c \in OpenedByFailed :
          /\ Releases(c) = 1
          /\ \A a \in DOMAIN infos : \A k \in DOMAIN infos[a].capturers :
                infos[a].capturers[k] # c
          /\ \A h \in DOMAIN handles : handles[h].ptr # c
    /\ \A t \in Threads :
          (pc[t] = "ret" /\ ret[t].res = "Capturer::new failed") =>
              \A k \in DOMAIN loc[t].capturers : loc[t].capturers[k] \in OpenedByFailed

\* A population failed at its second capturer; a later one has populated the
\* registry, and a handle to one of its capturers is out.
C29_Witness ==
    /\ \E t \in Threads :
          /\ pc[t] = "ret" /\ ret[t].res = "Capturer::new failed"
          /\ Len(loc[t].capturers) = 1
          /\ caps[loc[t].capturers[1]].by_fail = 1
    /\ Populated /\ handles # <<>>

=============================================================================
